---- MODULE Spec2Model ----
(***************************************************************************)
(* odin.fuel.utils: the persistent key-value stores NoSQL, MmapDict and    *)
(* SQLiteDict, with the path-keyed singleton registry NoSQL._INSTANCES.    *)
(*                                                                         *)
(* Python values are tagged records so that values of different Python     *)
(* types can be compared; files are byte sequences (naturals 0..255).      *)
(***************************************************************************)
EXTENDS Integers, Sequences, FiniteSets, TLC

(* ------------------------------------------------------------------ *)
(* Bounds of the model                                                 *)
(* ------------------------------------------------------------------ *)
MaxHandles == 2     \* objects of class NoSQL alive at one time
MaxBody == 24       \* bytes a mapped file may hold after its 104-byte head
MaxCap == 1         \* largest cache_size passed to a constructor

(* ------------------------------------------------------------------ *)
(* Program constants                                                   *)
(* ------------------------------------------------------------------ *)
HeaderLen == 8                  \* len(MmapDict.HEADER)
SIZE_BYTES == 48
MAX_INDICES_SIZE == 25          \* megabytes
MegaByte == 1048576             \* 1024. * 1024.
DataStart == HeaderLen + SIZE_BYTES * 2
HEADER == "mmapdict"
DEFAULT_TABLE == "_default_"

(* ------------------------------------------------------------------ *)
(* Python values                                                       *)
(* ------------------------------------------------------------------ *)
VNone == [t |-> "none", n |-> 0, xs |-> <<>>]
VInt(i) == [t |-> "int", n |-> i, xs |-> <<>>]
VList(items) == [t |-> "list", n |-> 0, xs |-> items]
VTuple(items) == [t |-> "tuple", n |-> 0, xs |-> items]
\* no value: the result of a call that returned nothing or raised
Void == [t |-> "void", n |-> 0, xs |-> <<>>]
VBool(b) == [t |-> "bool", n |-> IF b THEN 1 ELSE 0, xs |-> <<>>]

\* a key as the caller passes it: a str, or an int written in decimal
KStr(s) == [t |-> "str", s |-> s]
KInt(s) == [t |-> "int", s |-> s]
NoKey == [t |-> "none", s |-> ""]

\* str(key)
Str(key) == key.s

\* a Python dict is a function on its keys
EmptyDict == [k \in {} |-> Void]
DictSet(d, k, v) == [x \in (DOMAIN d) \cup {k} |-> IF x = k THEN v ELSE d[x]]
DictDel(d, k) == [x \in (DOMAIN d) \ {k} |-> d[x]]
\* `key in d` for a dict whose keys are all str: an int never equals a str
InDict(d, key) == key.t = "str" /\ key.s \in DOMAIN d

\* the keys of d in iteration order `ord` (a sequence without repetition)
RECURSIVE KeysInOrder(_, _)
KeysInOrder(d, ord) ==
    IF ord = <<>> THEN <<>>
    ELSE IF Head(ord) \in DOMAIN d
         THEN <<Head(ord)>> \o KeysInOrder(d, Tail(ord))
         ELSE KeysInOrder(d, Tail(ord))

(* ------------------------------------------------------------------ *)
(* marshal: the value encoding of both stores                          *)
(* ------------------------------------------------------------------ *)
LE32(n) == <<n % 256, (n \div 256) % 256, (n \div 65536) % 256,
             (n \div 16777216) % 256>>
UnLE32(bs) == bs[1] + 256 * bs[2] + 65536 * bs[3] + 16777216 * bs[4]

TYPE_NONE == 78     \* 'N'
TYPE_INT == 105     \* 'i'
TYPE_LIST == 91     \* '['
TYPE_TUPLE == 40    \* '('

RECURSIVE MarshalDumps(_)
RECURSIVE MarshalDumpsAll(_)
MarshalDumpsAll(items) ==
    IF items = <<>> THEN <<>>
    ELSE MarshalDumps(Head(items)) \o MarshalDumpsAll(Tail(items))
MarshalDumps(v) ==
    CASE v.t = "none" -> <<TYPE_NONE>>
      [] v.t = "int" -> <<TYPE_INT>> \o LE32(v.n)
      [] v.t = "list" -> <<TYPE_LIST>> \o LE32(Len(v.xs)) \o MarshalDumpsAll(v.xs)
      [] v.t = "tuple" -> <<TYPE_TUPLE>> \o LE32(Len(v.xs)) \o MarshalDumpsAll(v.xs)

\* bs[from..], as far as it goes
Drop(bs, k) == IF k >= Len(bs) THEN <<>> ELSE SubSeq(bs, k + 1, Len(bs))
Take(bs, k) == IF k >= Len(bs) THEN bs ELSE SubSeq(bs, 1, k)

\* r_object: [ok, v, rest]; ok is FALSE on truncated or unknown data
ParseFail == [ok |-> FALSE, v |-> Void, rest |-> <<>>]
RECURSIVE MarshalRead(_)
RECURSIVE MarshalReadN(_, _)
MarshalReadN(bs, k) ==
    IF k = 0 THEN [ok |-> TRUE, vs |-> <<>>, rest |-> bs]
    ELSE LET one == MarshalRead(bs) IN
         IF ~one.ok THEN [ok |-> FALSE, vs |-> <<>>, rest |-> <<>>]
         ELSE LET more == MarshalReadN(one.rest, k - 1) IN
              [ok |-> more.ok, vs |-> <<one.v>> \o more.vs, rest |-> more.rest]
MarshalRead(bs) ==
    IF bs = <<>> THEN ParseFail
    ELSE CASE bs[1] = TYPE_NONE -> [ok |-> TRUE, v |-> VNone, rest |-> Tail(bs)]
           [] bs[1] = TYPE_INT ->
                IF Len(bs) < 5 THEN ParseFail
                ELSE [ok |-> TRUE, v |-> VInt(UnLE32(SubSeq(bs, 2, 5))),
                      rest |-> Drop(bs, 5)]
           [] bs[1] \in {TYPE_LIST, TYPE_TUPLE} ->
                IF Len(bs) < 5 THEN ParseFail
                ELSE LET r == MarshalReadN(Drop(bs, 5), UnLE32(SubSeq(bs, 2, 5))) IN
                     IF ~r.ok THEN ParseFail
                     ELSE [ok |-> TRUE,
                           v |-> IF bs[1] = TYPE_LIST THEN VList(r.vs)
                                 ELSE VTuple(r.vs),
                           rest |-> r.rest]
           [] OTHER -> ParseFail

\* marshal.loads(bs): [ok, v]
MarshalLoads(bs) == LET r == MarshalRead(bs) IN [ok |-> r.ok, v |-> r.v]

(* ------------------------------------------------------------------ *)
(* cPickle: the encoding of the indices dict {key: (start, size)}      *)
(* (protocol 2 without the memo opcodes)                               *)
(* ------------------------------------------------------------------ *)
OP_PROTO == 128
OP_EMPTY_DICT == 125    \* '}'
OP_SHORT_BINSTRING == 85  \* 'U'
OP_BININT1 == 75        \* 'K'
OP_BININT2 == 77        \* 'M'
OP_TUPLE2 == 134
OP_SETITEM == 115       \* 's'
OP_STOP == 46           \* '.'

\* the bytes of a key, and the key of those bytes (ASCII)
TextKeys == {"a", "b", "1"}
KeyBytes(k) == CASE k = "a" -> <<97>> [] k = "b" -> <<98>> [] k = "1" -> <<49>>
BytesKey(bs) == IF \E k \in TextKeys : KeyBytes(k) = bs
                THEN CHOOSE k \in TextKeys : KeyBytes(k) = bs
                ELSE "?"

PickleInt(n) == IF n < 256 THEN <<OP_BININT1, n>>
                ELSE <<OP_BININT2, n % 256, (n \div 256) % 256>>

RECURSIVE PickleItems(_, _)
PickleItems(d, keys) ==
    IF keys = <<>> THEN <<>>
    ELSE LET k == Head(keys) IN
         <<OP_SHORT_BINSTRING, Len(KeyBytes(k))>> \o KeyBytes(k)
         \o PickleInt(d[k][1]) \o PickleInt(d[k][2])
         \o <<OP_TUPLE2, OP_SETITEM>> \o PickleItems(d, Tail(keys))

\* cPickle.dumps(d, protocol=HIGHEST_PROTOCOL), d iterated in order `ord`
PickleDumps(d, ord) ==
    <<OP_PROTO, 2, OP_EMPTY_DICT>> \o PickleItems(d, KeysInOrder(d, ord))
    \o <<OP_STOP>>

\* one integer operand: [ok, n, rest]
UnpickleInt(bs) ==
    IF bs = <<>> THEN [ok |-> FALSE, n |-> 0, rest |-> <<>>]
    ELSE IF bs[1] = OP_BININT1 /\ Len(bs) >= 2
         THEN [ok |-> TRUE, n |-> bs[2], rest |-> Drop(bs, 2)]
    ELSE IF bs[1] = OP_BININT2 /\ Len(bs) >= 3
         THEN [ok |-> TRUE, n |-> bs[2] + 256 * bs[3], rest |-> Drop(bs, 3)]
    ELSE [ok |-> FALSE, n |-> 0, rest |-> <<>>]

UnpickleFail == [ok |-> FALSE, d |-> EmptyDict]
RECURSIVE UnpickleItems(_, _)
UnpickleItems(bs, d) ==
    IF bs = <<>> THEN UnpickleFail
    ELSE IF bs[1] = OP_STOP THEN [ok |-> TRUE, d |-> d]
    ELSE IF bs[1] = OP_SHORT_BINSTRING /\ Len(bs) >= 2 /\ Len(bs) >= 2 + bs[2]
         THEN LET k == BytesKey(SubSeq(bs, 3, 2 + bs[2]))
                  a == UnpickleInt(Drop(bs, 2 + bs[2]))
                  b == UnpickleInt(a.rest)
              IN IF k # "?" /\ a.ok /\ b.ok /\ Len(b.rest) >= 2
                    /\ b.rest[1] = OP_TUPLE2 /\ b.rest[2] = OP_SETITEM
                 THEN UnpickleItems(Drop(b.rest, 2), DictSet(d, k, <<a.n, b.n>>))
                 ELSE UnpickleFail
    ELSE UnpickleFail

\* cPickle.loads(bs): [ok, d]; ok is FALSE when bs is no complete pickle
PickleLoads(bs) ==
    IF Len(bs) >= 3 /\ bs[1] = OP_PROTO /\ bs[2] = 2 /\ bs[3] = OP_EMPTY_DICT
    THEN UnpickleItems(Drop(bs, 3), EmptyDict)
    ELSE UnpickleFail

(* ------------------------------------------------------------------ *)
(* The file system: directory entries and inodes                       *)
(* ------------------------------------------------------------------ *)
Classes == {"MmapDict", "SQLiteDict"}
\* paths as callers write them, and os.path.abspath of each
RawPaths == {"P", "./P", "Q"}
AbsPath(raw) == CASE raw = "P" -> "/w/P" [] raw = "./P" -> "/w/P"
                  [] raw = "Q" -> "/w/Q"
Paths == {AbsPath(raw) : raw \in RawPaths}
TableNames == {DEFAULT_TABLE, "a", "b"}
NoRows == [t \in TableNames |-> EmptyDict]

InodeIds == 1..(Cardinality(Paths) + MaxHandles)
\* a file: `head` is its first 8 bytes; a mapped file has the two 48-byte
\* fields and the bytes from offset 104 on; a database has its tables in
\* creation order and their rows (key -> marshalled value)
NoFile == [kind |-> "none", head |-> "", max_position |-> 0, dict_size |-> 0,
           body |-> <<>>, tables |-> <<>>, rows |-> NoRows]
NewMmapFile == [NoFile EXCEPT !.kind = "mmap", !.head = HEADER,
                              !.max_position = DataStart, !.dict_size = 0]
NewDbFile == [NoFile EXCEPT !.kind = "sqlite", !.head = "SQLite f"]

FileSize(f) == IF f.kind = "mmap" THEN DataStart + Len(f.body)
               ELSE IF f.kind = "sqlite" THEN 4096 ELSE 0

\* file.seek(off); file.read(size)
RECURSIVE Zeros(_)
Zeros(k) == IF k <= 0 THEN <<>> ELSE <<0>> \o Zeros(k - 1)
ReadAt(f, off, size) == Take(Drop(f.body, off - DataStart), size)
\* file.seek(off); file.write(bs)
WriteAt(f, off, bs) ==
    LET at == off - DataStart
        old == f.body \o Zeros(at - Len(f.body))
    IN [f EXCEPT !.body = Take(old, at) \o bs \o Drop(old, at + Len(bs))]

(* ------------------------------------------------------------------ *)
(* Program state                                                       *)
(* ------------------------------------------------------------------ *)
VARIABLES
    instances,  \* NoSQL._INSTANCES: class name -> (path -> object)
    heap,       \* identity -> object of class NoSQL (cls "" when none has it)
    files,      \* inode -> file
    dir,        \* path -> inode, 0 when no file is at the path
    last        \* the call that ran last, with its outcome

vars == <<instances, heap, files, dir, last>>

\* an object of class NoSQL. `held`: the caller has a reference to it.
\* `attrs`: _restore_dict ran to its end, so the attributes it sets exist.
\* `fd`: the inode behind _file and _mmap, or behind _conn; 0 when none.
\* `idx`: _indices_dict is a dict ("dict") or the task unpickling `pickled`
\* ("future"); `has_cache`: the attribute _cache_dict exists.
\* `view_tables`, `view_rows`: the database as the connection sees it,
\* uncommitted changes included.
\* `remote`: the object lives in another process. `pc`: where a _flush of
\* the object that runs beside another one stands; `start`, `pos`, `dumped`:
\* its locals max_position (as read, and as advanced) and indices_length;
\* `wrote`: the keys its loop over the cache went through.
BlankObj ==
    [cls |-> "", path |-> "", read_only |-> FALSE, cache_size |-> 0,
     is_closed |-> FALSE, new_args_called |-> FALSE, held |-> FALSE,
     attrs |-> FALSE, fd |-> 0,
     idx |-> "none", finished |-> FALSE, pickled |-> <<>>, indices |-> EmptyDict,
     has_cache |-> FALSE, cache |-> EmptyDict, increased |-> 0, mmap_len |-> 0,
     caches |-> NoRows, current_table |-> "", view_tables |-> <<>>,
     view_rows |-> NoRows,
     remote |-> FALSE, pc |-> "idle", start |-> 0, pos |-> 0, dumped |-> 0,
     wrote |-> {}]

\* the four state variables as one value, for the operators below
State == [inst |-> instances, heap |-> heap, files |-> files, dir |-> dir]
SetObj(s, h, o) == [s EXCEPT !.heap[h] = o]
\* the outcome of a call: the state it leaves, "ok" or the exception raised,
\* and the value returned
Res(s, status, ret) == [s |-> s, status |-> status, ret |-> ret]

\* `r = <call>` followed by the statements K that use r
Bind(r, K(_)) == K(r)
Range(f) == {f[x] : x \in DOMAIN f}
Ids == 1..MaxHandles
Alive(s) == {h \in Ids : s.heap[h].cls # ""}
OpenInodes(s) == {s.heap[h].fd : h \in Ids} \ {0}
LinkedInodes(s) == {s.dir[p] : p \in Paths} \ {0}
FreeInodes(s) == InodeIds \ (OpenInodes(s) \cup LinkedInodes(s))
\* an inode neither linked nor open is gone
Reclaim(s) ==
    [s EXCEPT !.files = [i \in InodeIds |->
                            IF i \in FreeInodes(s) THEN NoFile ELSE s.files[i]]]
\* the inode a new file at `path` gets: the numbering is the file system's
\* own business, so a path takes its own number when that one is free
HomeInode(path) == IF path = AbsPath("P") THEN 1 ELSE 2
NewInode(s, path) ==
    IF HomeInode(path) \in FreeInodes(s) THEN HomeInode(path)
    ELSE CHOOSE i \in FreeInodes(s) : \A j \in FreeInodes(s) : i <= j

\* os.path.exists(path) and os.path.isfile(path)
Exists(s, path) == s.dir[path] # 0
\* os.remove(path)
Remove(s, path) == [s EXCEPT !.dir[path] = 0]

(* ------------------------------------------------------------------ *)
(* NoSQL.__new__                                                       *)
(* ------------------------------------------------------------------ *)
NeverRegistered(s, cls, path) == FALSE
\* `path in all_instances`
Registered(s, cls, path) == path \in DOMAIN s.inst[cls]

\* [s, h]: the registered object of (cls, abspath), else a new one
New(s, cls, raw, read_only, cache_size) ==
    LET path == AbsPath(raw) IN
    IF Registered(s, cls, path) THEN [s |-> s, h |-> s.inst[cls][path]]
    ELSE LET h == CHOOSE i \in Ids \ Alive(s) : \A j \in Ids \ Alive(s) : i <= j
             o == [BlankObj EXCEPT !.cls = cls, !.path = path,
                                   !.read_only = read_only,
                                   !.cache_size = cache_size]
         IN [s |-> [s EXCEPT !.heap[h] = o,
                             !.inst[cls] = DictSet(s.inst[cls], path, h)],
             h |-> h]

(* ------------------------------------------------------------------ *)
(* MmapDict                                                            *)
(* ------------------------------------------------------------------ *)
MmapRestoreDict(s, h) ==
    LET o == s.heap[h]
        ino == s.dir[o.path]
    IN IF ino # 0 /\ FileSize(s.files[ino]) > 0
       THEN LET f == s.files[ino] IN
            IF f.head # HEADER THEN Res(s, "FormatError", Void)
            ELSE Res(SetObj(s, h,
                        [o EXCEPT !.attrs = TRUE, !.fd = ino, !.idx = "future",
                                  !.finished = FALSE,
                                  !.pickled = ReadAt(f, f.max_position, f.dict_size),
                                  !.indices = EmptyDict, !.has_cache = TRUE,
                                  !.cache = EmptyDict, !.increased = 0,
                                  !.mmap_len = FileSize(f)]),
                     "ok", Void)
       ELSE IF o.read_only THEN Res(s, "NotFoundError", Void)
       ELSE LET new == NewInode(s, o.path)
                s1 == [s EXCEPT !.dir[o.path] = new, !.files[new] = NewMmapFile]
            IN Res(SetObj(s1, h,
                      [o EXCEPT !.attrs = TRUE, !.fd = new, !.idx = "dict",
                                !.finished = TRUE, !.pickled = <<>>,
                                !.indices = EmptyDict, !.has_cache = TRUE,
                                !.cache = EmptyDict, !.increased = 0,
                                !.mmap_len = FileSize(NewMmapFile)]),
                   "ok", Void)

\* the property `indices`: waits for the unpickling task and keeps its
\* result. [ok, s, d]; ok is FALSE when the pickled bytes do not load.
Indices(s, h) ==
    LET o == s.heap[h] IN
    IF o.idx = "dict" THEN [ok |-> TRUE, s |-> s, d |-> o.indices]
    ELSE LET r == PickleLoads(o.pickled) IN
         IF r.ok
         THEN [ok |-> TRUE,
               s |-> SetObj(s, h, [o EXCEPT !.idx = "dict", !.finished = TRUE,
                                            !.pickled = <<>>, !.indices = r.d]),
               d |-> r.d]
         ELSE [ok |-> FALSE, s |-> SetObj(s, h, [o EXCEPT !.finished = TRUE]),
               d |-> EmptyDict]

\* the property `is_loaded`
IsLoaded(s, h) ==
    LET o == s.heap[h] IN
    IF o.is_closed THEN FALSE
    ELSE IF o.idx # "dict" THEN o.finished ELSE TRUE

\* a loop of _flush that writes the record of a key the index has over the
\* record that is there
RECURSIVE WriteRecordsInPlace(_, _, _, _, _)
WriteRecordsInPlace(f, indices, pos, cache, keys) ==
    IF keys = <<>> THEN [f |-> f, indices |-> indices, pos |-> pos, added |-> 0]
    ELSE LET key == Head(keys)
             value == MarshalDumps(cache[key])
             old == key \in DOMAIN indices
             at == IF old THEN indices[key][1] ELSE pos
             r == WriteRecordsInPlace(WriteAt(f, at, value),
                               DictSet(indices, key, <<at, Len(value)>>),
                               IF old THEN pos ELSE pos + Len(value),
                               cache, Tail(keys))
         IN [r EXCEPT !.added = @ + 8 + 8 + Len(KeyBytes(key))]

\* a loop of _flush that notes the position of a record after it has moved
\* it on
RECURSIVE WriteRecordsLate(_, _, _, _, _)
WriteRecordsLate(f, indices, pos, cache, keys) ==
    IF keys = <<>> THEN [f |-> f, indices |-> indices, pos |-> pos, added |-> 0]
    ELSE LET key == Head(keys)
             value == MarshalDumps(cache[key])
             r == WriteRecordsLate(WriteAt(f, pos, value),
                               DictSet(indices, key,
                                       <<pos + Len(value), Len(value)>>),
                               pos + Len(value), cache, Tail(keys))
         IN [r EXCEPT !.added = @ + 8 + 8 + Len(KeyBytes(key))]

\* the loop of _flush over the cache: [f, indices, pos, added]
RECURSIVE WriteRecords(_, _, _, _, _)
WriteRecords(f, indices, pos, cache, keys) ==
    IF keys = <<>> THEN [f |-> f, indices |-> indices, pos |-> pos, added |-> 0]
    ELSE LET key == Head(keys)
             value == MarshalDumps(cache[key])
             r == WriteRecords(WriteAt(f, pos, value),
                               DictSet(indices, key, <<pos, Len(value)>>),
                               pos + Len(value), cache, Tail(keys))
         IN [r EXCEPT !.added = @ + 8 + 8 + Len(KeyBytes(key))]

\* whether _flush dumps the indices
SaveIndices(save_all, increased) ==
    save_all \/ increased > MAX_INDICES_SIZE * MegaByte

\* the header field written after the new max_position
NewDictSize(f, indices_length) ==
    IF indices_length > 0 THEN indices_length ELSE f.dict_size

MmapFlush(s, h, save_all, ord) ==
    LET o == s.heap[h] IN
    IF o.is_closed \/ o.read_only THEN Res(s, "ok", Void)
    ELSE IF ~o.has_cache THEN Res(s, "AttributeError", Void)
    ELSE
    LET keys == KeysInOrder(o.cache, ord) IN
    Bind(Indices(s, h), LAMBDA ix :
       IF keys # <<>> /\ ~ix.ok THEN Res(ix.s, "LoadError", Void)
       ELSE
       Bind(WriteRecords(s.files[o.fd], ix.d, s.files[o.fd].max_position,
                         o.cache, keys), LAMBDA w :
       LET incr == o.increased + w.added
           dump == SaveIndices(save_all, incr)
       IN IF dump /\ ~ix.ok THEN Res(ix.s, "LoadError", Void)
          ELSE
          Bind(IF dump THEN PickleDumps(w.indices, ord) ELSE <<>>, LAMBDA blob :
          LET sb == IF keys # <<>> \/ dump THEN ix.s ELSE s
              f1 == IF dump THEN WriteAt(w.f, w.pos, blob) ELSE w.f
              f2 == [f1 EXCEPT !.max_position = w.pos,
                               !.dict_size = NewDictSize(f1, Len(blob))]
              o2 == [sb.heap[h] EXCEPT
                        !.indices = IF keys # <<>> THEN w.indices ELSE @,
                        !.increased = IF dump THEN 0 ELSE incr,
                        !.mmap_len = FileSize(f2),
                        !.cache = EmptyDict]
          IN Res([SetObj(sb, h, o2) EXCEPT !.files[o.fd] = f2], "ok", Void))))

\* _flush(save_all=True) in the steps another process can come between.
\* First step: the header is read.
FlushReadStep(s, h) ==
    LET o == s.heap[h]
        mp == s.files[o.fd].max_position
    IN Res(SetObj(s, h, [o EXCEPT !.pc = "read", !.start = mp, !.pos = mp]),
           "ok", Void)

\* Second step: the records of the pending entries and the pickled
\* indices reach the file, from the max_position that was read on (the
\* seek back to the header empties the buffer of the file object).
FlushAppendStep(s, h, ord) ==
    LET o == s.heap[h]
        keys == KeysInOrder(o.cache, ord)
    IN IF ~o.has_cache
       THEN Res(SetObj(s, h, [o EXCEPT !.pc = "idle"]), "AttributeError", Void)
       ELSE
       Bind(Indices(s, h), LAMBDA ix :
          IF ~ix.ok
          THEN Res(SetObj(ix.s, h, [ix.s.heap[h] EXCEPT !.pc = "idle"]),
                   "LoadError", Void)
          ELSE
          Bind(WriteRecords(s.files[o.fd], ix.d, o.pos, o.cache, keys), LAMBDA w :
          Bind(PickleDumps(w.indices, ord), LAMBDA blob :
          LET o2 == [ix.s.heap[h] EXCEPT
                        !.indices = w.indices, !.increased = 0,
                        !.pc = "appended", !.pos = w.pos, !.dumped = Len(blob),
                        !.wrote = DOMAIN o.cache]
          IN Res([SetObj(ix.s, h, o2) EXCEPT
                     !.files[o.fd] = WriteAt(w.f, w.pos, blob)], "ok", Void))))

\* Third step: the header is written, the file mapped again and the cache
\* emptied.
FlushHeaderStep(s, h) ==
    LET o == s.heap[h]
        f == s.files[o.fd]
        f2 == [f EXCEPT !.max_position = o.pos,
                        !.dict_size = NewDictSize(f, o.dumped)]
    IN Res([SetObj(s, h, [o EXCEPT !.pc = "idle", !.mmap_len = FileSize(f2),
                                   !.cache = EmptyDict])
               EXCEPT !.files[o.fd] = f2], "ok", Void)

\* MmapDict(path, cache_size=c) in another process, which has a registry
\* of its own with nothing in it. [s, status, h]
OpenRemote(s, raw, c) ==
    LET h == CHOOSE i \in Ids \ Alive(s) : \A j \in Ids \ Alive(s) : i <= j
        o == [BlankObj EXCEPT !.cls = "MmapDict", !.path = AbsPath(raw),
                              !.read_only = FALSE, !.cache_size = c,
                              !.remote = TRUE]
    IN Bind(MmapRestoreDict(SetObj(s, h, o), h), LAMBDA r :
       [s |-> IF r.status = "ok"
              THEN SetObj(r.s, h, [r.s.heap[h] EXCEPT !.held = TRUE])
              ELSE SetObj(r.s, h, BlankObj),
        status |-> r.status, h |-> h])

MmapClose(s, h) ==
    LET o == s.heap[h] IN
    IF ~o.attrs THEN Res(s, "AttributeError", Void)
    ELSE Res(Reclaim(SetObj(s, h,
                [o EXCEPT !.fd = 0, !.idx = "none", !.finished = FALSE,
                          !.pickled = <<>>, !.indices = EmptyDict,
                          !.has_cache = FALSE, !.cache = EmptyDict,
                          !.mmap_len = 0])),
             IF o.has_cache THEN "ok" ELSE "AttributeError", Void)

\* a store that flushes one entry too late
MmapCacheFullLate(cache, cache_size) == Cardinality(DOMAIN cache) > cache_size + 1

\* whether __setitem__ flushes
MmapCacheFull(cache, cache_size) == Cardinality(DOMAIN cache) > cache_size

\* _mmap.seek(start); _mmap.read(size): the map ends at mmap_len
MmapRead(s, h, start, size) ==
    LET o == s.heap[h] IN
    Take(ReadAt(s.files[o.fd], start, size), o.mmap_len - start)

MmapGetItem(s, h, key) ==
    LET o == s.heap[h] IN
    IF ~o.has_cache THEN Res(s, "AttributeError", Void)
    ELSE IF InDict(o.cache, key) THEN Res(s, "ok", o.cache[key.s])
    ELSE Bind(Indices(s, h), LAMBDA ix :
         IF ~ix.ok THEN Res(ix.s, "LoadError", Void)
         ELSE IF ~InDict(ix.d, key) THEN Res(ix.s, "KeyError", Void)
         ELSE Bind(MarshalLoads(MmapRead(ix.s, h, ix.d[key.s][1], ix.d[key.s][2])),
                   LAMBDA v : IF v.ok THEN Res(ix.s, "ok", v.v)
                              ELSE Res(ix.s, "MarshalError", Void)))

MmapDelItem(s, h, key) ==
    LET o == s.heap[h] IN
    IF o.read_only THEN Res(s, "ok", Void)
    ELSE IF ~o.has_cache THEN Res(s, "AttributeError", Void)
    ELSE IF InDict(o.cache, key)
         THEN Res(SetObj(s, h, [o EXCEPT !.has_cache = FALSE, !.cache = EmptyDict]),
                  "ok", Void)
    ELSE Bind(Indices(s, h), LAMBDA ix :
         IF ~ix.ok THEN Res(ix.s, "LoadError", Void)
         ELSE IF ~InDict(ix.d, key) THEN Res(ix.s, "KeyError", Void)
         ELSE Res(SetObj(ix.s, h, [ix.s.heap[h] EXCEPT
                                      !.indices = DictDel(ix.d, key.s)]),
                  "ok", Void))

(* ------------------------------------------------------------------ *)
(* SQLiteDict                                                          *)
(* ------------------------------------------------------------------ *)
\* the connection can run statements: it is open, on a database file
ConnOk(s, h) == s.heap[h].fd # 0 /\ s.files[s.heap[h].fd].kind = "sqlite"
ConnError(s, h) == IF s.heap[h].fd = 0 THEN "ProgrammingError" ELSE "DatabaseError"

\* connection.commit()
Commit(s, h) ==
    LET o == s.heap[h] IN
    [s EXCEPT !.files[o.fd].tables = o.view_tables,
              !.files[o.fd].rows = o.view_rows]

IsTableExist(s, h, table_name) == table_name \in Range(s.heap[h].view_tables)

\* set_table(table_name); the name "None" stands for None
SqlSetTable(s, h, name) ==
    LET o == s.heap[h]
        table_name == IF name = "None" THEN DEFAULT_TABLE ELSE name
    IN IF ~ConnOk(s, h) THEN Res(s, ConnError(s, h), Void)
       ELSE IF ~IsTableExist(s, h, table_name)
            THEN LET o1 == [o EXCEPT !.view_tables = Append(@, table_name),
                                     !.view_rows[table_name] = EmptyDict,
                                     !.current_table = table_name]
                 IN Res(Commit(SetObj(s, h, o1), h), "ok", Void)
            ELSE Res(SetObj(s, h, [o EXCEPT !.current_table = table_name]),
                     "ok", Void)

\* the table a name stands for in a statement: SQLite compares the names
\* of tables without regard to case
Canon(name) == IF name = "_DEFAULT_" THEN DEFAULT_TABLE ELSE name

\* <<x : x in seq, x # a>>
Without(seq, a) == SelectSeq(seq, LAMBDA x : x # a)

\* drop_table(name); the name "None" stands for None. DROP TABLE is run
\* outside a transaction, after the commit of the one that is open.
SqlDropTable(s, h, name) ==
    LET o == s.heap[h]
        table_name == IF name = "None" THEN o.current_table ELSE name
        o1 == IF name = "None" THEN [o EXCEPT !.current_table = DEFAULT_TABLE]
              ELSE o
        s1 == SetObj(s, h, o1)
    IN IF o.read_only THEN Res(s, "ok", Void)
       ELSE IF table_name = DEFAULT_TABLE THEN Res(s1, "ValueError", Void)
       ELSE IF ~ConnOk(s, h) THEN Res(s1, ConnError(s, h), Void)
       ELSE IF ~IsTableExist(s, h, Canon(table_name))
            THEN Res(s1, "OperationalError", Void)
       ELSE Res(Commit(SetObj(s1, h,
                          [o1 EXCEPT !.view_tables = Without(@, Canon(table_name)),
                                     !.view_rows[Canon(table_name)] = EmptyDict]),
                       h),
                "ok", Void)

SqlRestoreDict(s, h) ==
    LET o == s.heap[h]
        old == s.dir[o.path]
        ino == IF old # 0 THEN old ELSE NewInode(s, o.path)
        s1 == IF old # 0 THEN s
              ELSE [s EXCEPT !.dir[o.path] = ino, !.files[ino] = NewDbFile]
        f == s1.files[ino]
        o1 == [o EXCEPT !.caches = NoRows, !.fd = ino,
                        !.view_tables = f.tables, !.view_rows = f.rows]
    IN IF f.kind # "sqlite" THEN Res(SetObj(s1, h, o1), "DatabaseError", Void)
       ELSE Bind(SqlSetTable(SetObj(s1, h, [o1 EXCEPT
                                                   !.current_table = DEFAULT_TABLE]),
                             h, DEFAULT_TABLE), LAMBDA r :
            Res(SetObj(r.s, h, [r.s.heap[h] EXCEPT !.attrs = TRUE]),
                r.status, Void))

\* cursor.executemany("INSERT ..."): the rows go in one by one, and a key
\* the table already has stops it. [ok, rows]
RECURSIVE InsertRows(_, _, _)
InsertRows(rows, cache, keys) ==
    IF keys = <<>> THEN [ok |-> TRUE, rows |-> rows]
    ELSE IF Head(keys) \in DOMAIN rows THEN [ok |-> FALSE, rows |-> rows]
    ELSE InsertRows(DictSet(rows, Head(keys), MarshalDumps(cache[Head(keys)])),
                    cache, Tail(keys))

\* the loop of _flush over the tables
RECURSIVE SqlFlushTables(_, _, _, _)
SqlFlushTables(s, h, tables, ord) ==
    IF tables = <<>> THEN Res(s, "ok", Void)
    ELSE LET tab == Head(tables) IN
         Bind(SqlSetTable(s, h, tab), LAMBDA r :
            IF r.status # "ok" THEN r
            ELSE LET o == r.s.heap[h]
                     cache == o.caches[tab]
                 IN IF DOMAIN cache = {}
                    THEN SqlFlushTables(r.s, h, Tail(tables), ord)
                    ELSE Bind(InsertRows(o.view_rows[tab], cache,
                                         KeysInOrder(cache, ord)), LAMBDA ins :
                         LET o1 == [o EXCEPT !.view_rows[tab] = ins.rows]
                         IN IF ~ins.ok
                            THEN Res(SetObj(r.s, h, o1), "IntegrityError", Void)
                            ELSE SqlFlushTables(
                                    SetObj(Commit(SetObj(r.s, h, o1), h), h,
                                           [o1 EXCEPT !.caches[tab] = EmptyDict]),
                                    h, Tail(tables), ord)))

SqlFlush(s, h, save_all, ord) ==
    LET o == s.heap[h]
        curr_tab == o.current_table
        tables == IF save_all THEN o.view_tables ELSE <<curr_tab>>
    IN IF ~ConnOk(s, h) THEN Res(s, ConnError(s, h), Void)
       ELSE Bind(SqlFlushTables(s, h, tables, ord), LAMBDA r :
            IF r.status # "ok" THEN r
            ELSE SqlSetTable(r.s, h, curr_tab))

SqlClose(s, h) ==
    LET o == s.heap[h] IN
    IF o.fd = 0 THEN Res(s, "AttributeError", Void)
    ELSE Res(Reclaim(SetObj(s, h, [o EXCEPT !.fd = 0, !.view_tables = <<>>,
                                            !.view_rows = NoRows])),
             "ok", Void)

(* ------------------------------------------------------------------ *)
(* NoSQL: the methods the two stores share                             *)
(* ------------------------------------------------------------------ *)
RestoreDict(s, h) ==
    IF s.heap[h].cls = "MmapDict" THEN MmapRestoreDict(s, h)
    ELSE SqlRestoreDict(s, h)

\* cls(path, read_only, cache_size, override): __new__, then __init__ on
\* the object __new__ returned. [s, status, h]
Construct(s, cls, raw, read_only, cache_size, override) ==
    Bind(New(s, cls, raw, read_only, cache_size), LAMBDA n :
    Bind(RestoreDict(IF override /\ Exists(n.s, AbsPath(raw))
                     THEN Remove(n.s, AbsPath(raw)) ELSE n.s, n.h), LAMBDA r :
    [s |-> Reclaim(IF r.status = "ok"
                   THEN SetObj(r.s, n.h, [r.s.heap[n.h] EXCEPT !.held = TRUE])
                   ELSE r.s),
     status |-> r.status, h |-> n.h]))

\* flush(save_all)
Flush(s, h, save_all, ord) ==
    LET o == s.heap[h] IN
    IF o.read_only \/ o.is_closed THEN Res(s, "ok", Void)
    ELSE IF o.cls = "MmapDict" THEN MmapFlush(s, h, save_all, ord)
    ELSE SqlFlush(s, h, save_all, ord)

\* a close() that leaves the entry of the object in _INSTANCES
CloseKeepsEntry(s, h, ord) ==
    LET o == s.heap[h] IN
    IF o.is_closed THEN Res(s, "ok", Void)
    ELSE LET s1 == SetObj(s, h, [o EXCEPT !.is_closed = TRUE]) IN
         Bind(IF ~o.read_only THEN Flush(s1, h, TRUE, ord)
              ELSE Res(s1, "ok", Void), LAMBDA r :
            IF r.status # "ok" THEN r
            ELSE IF o.cls = "MmapDict" THEN MmapClose(r.s, h) ELSE SqlClose(r.s, h))

\* close()
Close(s, h, ord) ==
    LET o == s.heap[h] IN
    IF o.is_closed THEN Res(s, "ok", Void)
    ELSE LET s1 == SetObj(s, h, [o EXCEPT !.is_closed = TRUE]) IN
         Bind(IF ~o.read_only THEN Flush(s1, h, TRUE, ord)
              ELSE Res(s1, "ok", Void), LAMBDA r :
            IF r.status # "ok" THEN r
            ELSE IF ~Registered(r.s, o.cls, o.path) THEN Res(r.s, "KeyError", Void)
            ELSE LET s2 == [r.s EXCEPT !.inst[o.cls] = DictDel(@, o.path)] IN
                 IF o.cls = "MmapDict" THEN MmapClose(s2, h) ELSE SqlClose(s2, h))

(* ------------------------------------------------------------------ *)
(* __setitem__, __getitem__, __delitem__                               *)
(* ------------------------------------------------------------------ *)
MmapSetItem(s, h, key, value, ord) ==
    LET o == s.heap[h] IN
    IF o.read_only THEN Res(s, "ok", Void)
    ELSE IF ~o.has_cache THEN Res(s, "AttributeError", Void)
    ELSE LET cache == DictSet(o.cache, Str(key), value)
             s1 == SetObj(s, h, [o EXCEPT !.cache = cache])
         IN IF MmapCacheFull(cache, o.cache_size)
            THEN Flush(s1, h, FALSE, ord)
            ELSE Res(s1, "ok", Void)

\* whether __setitem__ flushes
SqlCacheFull(cache, cache_size) == Cardinality(DOMAIN cache) >= cache_size

SqlSetItem(s, h, key, value, ord) ==
    LET o == s.heap[h] IN
    IF o.read_only THEN Res(s, "RuntimeError", Void)
    ELSE LET cache == DictSet(o.caches[o.current_table], Str(key), value)
             s1 == SetObj(s, h, [o EXCEPT !.caches[o.current_table] = cache])
         IN IF SqlCacheFull(cache, o.cache_size)
            THEN Bind(Flush(s1, h, FALSE, ord), LAMBDA r :
                 IF r.status # "ok" THEN r
                 ELSE Res(SetObj(r.s, h,
                             [r.s.heap[h] EXCEPT
                                 !.caches[r.s.heap[h].current_table] = EmptyDict]),
                          "ok", Void))
            ELSE Res(s1, "ok", Void)

\* a get that reads the default table whatever table is current
SqlGetItemDefaultTable(s, h, key) ==
    LET o == s.heap[h]
        k == Str(key)
        tb == DEFAULT_TABLE
    IN IF k \in DOMAIN o.caches[tb] THEN Res(s, "ok", o.caches[tb][k])
       ELSE IF ~ConnOk(s, h) THEN Res(s, ConnError(s, h), Void)
       ELSE IF ~IsTableExist(s, h, tb) THEN Res(s, "OperationalError", Void)
       ELSE IF k \notin DOMAIN o.view_rows[tb] THEN Res(s, "KeyError", Void)
       ELSE LET v == MarshalLoads(o.view_rows[tb][k]) IN
            IF v.ok THEN Res(s, "ok", v.v) ELSE Res(s, "MarshalError", Void)

\* __getitem__ with one key
SqlGetItem(s, h, key) ==
    LET o == s.heap[h]
        k == Str(key)
        tb == o.current_table
    IN IF k \in DOMAIN o.caches[tb] THEN Res(s, "ok", o.caches[tb][k])
       ELSE IF ~ConnOk(s, h) THEN Res(s, ConnError(s, h), Void)
       ELSE IF ~IsTableExist(s, h, tb) THEN Res(s, "OperationalError", Void)
       ELSE IF k \notin DOMAIN o.view_rows[tb] THEN Res(s, "KeyError", Void)
       ELSE LET v == MarshalLoads(o.view_rows[tb][k]) IN
            IF v.ok THEN Res(s, "ok", v.v) ELSE Res(s, "MarshalError", Void)

\* the columns of a table: set_table creates it with `key` and `value`
ColumnNames == {"key", "value"}

\* key IN ("lit", ...) on the row of key k. SQLite reads a double-quoted
\* token that names a column as that column, else as a text: "key" is the
\* key of the row itself. (No key of the model is the text of a value.)
RowMatches(k, lits) ==
    \E i \in DOMAIN lits :
        IF lits[i] \in ColumnNames THEN lits[i] = "key" ELSE lits[i] = k

\* marshal.loads of each row of the result: [ok, vs]
RECURSIVE LoadAll(_, _)
LoadAll(rows, names) ==
    IF names = <<>> THEN [ok |-> TRUE, vs |-> <<>>]
    ELSE Bind(MarshalLoads(rows[Head(names)]), LAMBDA v :
         Bind(LoadAll(rows, Tail(names)), LAMBDA rest :
            [ok |-> v.ok /\ rest.ok, vs |-> <<v.v>> \o rest.vs]))

\* __getitem__ with a tuple or list of keys; the rows come in the order ord
SqlGetItems(s, h, keys, ord) ==
    LET o == s.heap[h]
        tb == o.current_table
        lits == [i \in DOMAIN keys |-> Str(keys[i])]
    IN IF ~ConnOk(s, h) THEN Res(s, ConnError(s, h), Void)
       ELSE IF ~IsTableExist(s, h, tb) THEN Res(s, "OperationalError", Void)
       ELSE LET results == SelectSeq(ord, LAMBDA k :
                              k \in DOMAIN o.view_rows[tb] /\ RowMatches(k, lits))
            IN IF Len(results) # Len(keys) THEN Res(s, "KeyError", Void)
               ELSE Bind(LoadAll(o.view_rows[tb], results), LAMBDA l :
                       IF l.ok THEN Res(s, "ok", VList(l.vs))
                       ELSE Res(s, "MarshalError", Void))

\* ', '.join(db_key)
RECURSIVE Join(_)
Join(db_key) ==
    IF db_key = <<>> THEN ""
    ELSE IF Len(db_key) = 1 THEN db_key[1]
    ELSE db_key[1] \o ", " \o Join(Tail(db_key))

\* the loop of __delitem__ over the keys: [cache, db_key]
RECURSIVE SqlDelFromCache(_, _)
SqlDelFromCache(cache, keys) ==
    IF keys = <<>> THEN [cache |-> cache, db_key |-> <<>>]
    ELSE LET k == Str(Head(keys)) IN
         IF k \in DOMAIN cache
         THEN SqlDelFromCache(DictDel(cache, k), Tail(keys))
         ELSE LET r == SqlDelFromCache(cache, Tail(keys)) IN
              [r EXCEPT !.db_key = <<k>> \o @]

\* __delitem__(key): `keys` is the one key, or the keys of a sequence
SqlDelItem(s, h, keys) ==
    LET o == s.heap[h]
        tb == o.current_table
    IN IF o.read_only THEN Res(s, "ok", Void)
       ELSE LET d == SqlDelFromCache(o.caches[tb], keys)
                s1 == SetObj(s, h, [o EXCEPT !.caches[tb] = d.cache])
            IN IF ~ConnOk(s, h) THEN Res(s1, ConnError(s, h), Void)
               ELSE IF ~IsTableExist(s, h, tb) THEN Res(s1, "OperationalError", Void)
               ELSE Res(Commit(SetObj(s1, h,
                                  [s1.heap[h] EXCEPT
                                      !.view_rows[tb] = DictDel(@, Join(d.db_key))]),
                               h),
                        "ok", Void)

(* ------------------------------------------------------------------ *)
(* update, clear                                                       *)
(* ------------------------------------------------------------------ *)
\* SQLiteDict.update({key: value}): the UPDATE statement has one
\* placeholder and is given two values
SqlUpdate(s, h, key, value) ==
    LET o == s.heap[h]
        k == Str(key)
        tb == o.current_table
    IN IF o.read_only THEN Res(s, "ok", Void)
       ELSE IF k \in DOMAIN o.caches[tb]
            THEN LET s1 == SetObj(s, h, [o EXCEPT !.caches[tb][k] = value]) IN
                 IF ~ConnOk(s, h) THEN Res(s1, ConnError(s, h), Void)
                 ELSE Res(Commit(s1, h), "ok", Void)
       ELSE IF ~ConnOk(s, h) THEN Res(s, ConnError(s, h), Void)
       ELSE Res(s, "ProgrammingError", Void)

\* update({key: value})
Update(s, h, key, value, ord) ==
    LET o == s.heap[h] IN
    IF o.read_only THEN Res(s, "ok", Void)
    ELSE IF o.cls = "MmapDict" THEN MmapSetItem(s, h, key, value, ord)
    ELSE SqlUpdate(s, h, key, value)

Hashable(v) == v.t # "list"

\* MutableMapping.clear() on a MmapDict: popitem takes the first item of
\* iteritems() as a key, and clear ends on the KeyError this raises
MmapClear(s, h, ord) ==
    Bind(Indices(s, h), LAMBDA ix :
    LET o == ix.s.heap[h]
    IN IF ~ix.ok THEN Res(ix.s, "LoadError", Void)
       ELSE IF DOMAIN ix.d # {}
            THEN LET name == Head(KeysInOrder(ix.d, ord)) IN
                 Bind(MarshalLoads(MmapRead(ix.s, h, ix.d[name][1], ix.d[name][2])),
                      LAMBDA v :
                    IF ~v.ok THEN Res(ix.s, "MarshalError", Void)
                    ELSE IF ~o.has_cache THEN Res(ix.s, "AttributeError", Void)
                    ELSE IF ~Hashable(v.v) THEN Res(ix.s, "TypeError", Void)
                    ELSE Res(ix.s, "ok", Void))
       ELSE IF ~o.has_cache THEN Res(ix.s, "AttributeError", Void)
       ELSE IF DOMAIN o.cache = {} THEN Res(ix.s, "ok", Void)
       ELSE LET val == o.cache[Head(KeysInOrder(o.cache, ord))] IN
            IF val.t \notin {"list", "tuple"} THEN Res(ix.s, "TypeError", Void)
            ELSE IF Len(val.xs) # 2 THEN Res(ix.s, "ValueError", Void)
            ELSE IF ~Hashable(val.xs[1]) THEN Res(ix.s, "TypeError", Void)
            ELSE Res(ix.s, "ok", Void))

\* SQLiteDict.clear(): TRUNCATE TABLE is no statement of SQLite
SqlClear(s, h) ==
    IF s.heap[h].read_only THEN Res(s, "ok", Void)
    ELSE IF ~ConnOk(s, h) THEN Res(s, ConnError(s, h), Void)
    ELSE Res(s, "OperationalError", Void)

\* clear()
Clear(s, h, ord) ==
    LET o == s.heap[h] IN
    IF o.read_only THEN Res(s, "ok", Void)
    ELSE IF o.cls = "MmapDict" THEN MmapClear(s, h, ord)
    ELSE SqlClear(s, h)

\* MmapDict.__contains__, MmapDict.__len__
MmapContains(s, h, key) ==
    Bind(Indices(s, h), LAMBDA ix :
       IF ~ix.ok THEN Res(ix.s, "LoadError", Void)
       ELSE IF InDict(ix.d, key) THEN Res(ix.s, "ok", VBool(TRUE))
       ELSE IF ~ix.s.heap[h].has_cache THEN Res(ix.s, "AttributeError", Void)
       ELSE Res(ix.s, "ok", VBool(InDict(ix.s.heap[h].cache, key))))

MmapLen(s, h) ==
    Bind(Indices(s, h), LAMBDA ix :
       IF ~ix.ok THEN Res(ix.s, "LoadError", Void)
       ELSE IF ~ix.s.heap[h].has_cache THEN Res(ix.s, "AttributeError", Void)
       ELSE Res(ix.s, "ok", VInt(Cardinality(DOMAIN ix.d)
                                 + Cardinality(DOMAIN ix.s.heap[h].cache))))

\* SQLiteDict.__contains__, SQLiteDict.__len__
SqlContains(s, h, key) ==
    LET o == s.heap[h]
        tb == o.current_table
    IN IF Str(key) \in DOMAIN o.caches[tb] THEN Res(s, "ok", VBool(TRUE))
       ELSE IF ~ConnOk(s, h) THEN Res(s, ConnError(s, h), Void)
       ELSE IF ~IsTableExist(s, h, tb) THEN Res(s, "OperationalError", Void)
       ELSE Res(s, "ok", VBool(Str(key) \in DOMAIN o.view_rows[tb]))

SqlLen(s, h) ==
    LET o == s.heap[h]
        tb == o.current_table
    IN IF ~ConnOk(s, h) THEN Res(s, ConnError(s, h), Void)
       ELSE IF ~IsTableExist(s, h, tb) THEN Res(s, "OperationalError", Void)
       ELSE Res(s, "ok", VInt(Cardinality(DOMAIN o.view_rows[tb])
                              + Cardinality(DOMAIN o.caches[tb])))

\* key in obj, len(obj)
Contains(s, h, key) ==
    IF s.heap[h].cls = "MmapDict" THEN MmapContains(s, h, key)
    ELSE SqlContains(s, h, key)
Length(s, h) ==
    IF s.heap[h].cls = "MmapDict" THEN MmapLen(s, h) ELSE SqlLen(s, h)

\* obj[key] = value, obj[key], del obj[key]
SetItem(s, h, key, value, ord) ==
    IF s.heap[h].cls = "MmapDict" THEN MmapSetItem(s, h, key, value, ord)
    ELSE SqlSetItem(s, h, key, value, ord)
GetItem(s, h, key) ==
    IF s.heap[h].cls = "MmapDict" THEN MmapGetItem(s, h, key)
    ELSE SqlGetItem(s, h, key)
DelItem(s, h, key) ==
    IF s.heap[h].cls = "MmapDict" THEN MmapDelItem(s, h, key)
    ELSE SqlDelItem(s, h, <<key>>)

\* `key, val = value`: the two items of a list or tuple of two, else the
\* unpacking raises
Unpack2(value) ==
    IF value.t \in {"list", "tuple"}
    THEN IF Len(value.xs) = 2
         THEN [status |-> "ok", item |-> <<value.xs[1], value.xs[2]>>]
         ELSE [status |-> "ValueError", item |-> <<>>]
    ELSE [status |-> "TypeError", item |-> <<>>]

\* the first status of a sequence of results that is not "ok"
RECURSIVE FirstError(_)
FirstError(rs) ==
    IF rs = <<>> THEN "ok"
    ELSE IF Head(rs).status # "ok" THEN Head(rs).status
    ELSE FirstError(Tail(rs))

\* MmapDict.iterkeys: the keys of the index, then the keys of the cache.
\* io and co are the orders the two dictionaries iterate in.
MmapIterKeys(s, h, io, co) ==
    Bind(Indices(s, h), LAMBDA ix :
       IF ~ix.ok THEN Res(ix.s, "LoadError", <<>>)
       ELSE IF ~ix.s.heap[h].has_cache THEN Res(ix.s, "AttributeError", <<>>)
       ELSE Res(ix.s, "ok", io \o co))

\* MmapDict.iteritems: the records of the index, then
\* `for key, val in self._cache_dict.itervalues()`
MmapIterItems(s, h, io, co) ==
    Bind(Indices(s, h), LAMBDA ix :
       IF ~ix.ok THEN Res(ix.s, "LoadError", <<>>)
       ELSE LET recs == [i \in DOMAIN io |->
                           LET v == MarshalLoads(MmapRead(ix.s, h, ix.d[io[i]][1],
                                                          ix.d[io[i]][2]))
                           IN [status |-> IF v.ok THEN "ok" ELSE "MarshalError",
                               item |-> <<io[i], v.v>>]]
                cached == [i \in DOMAIN co |-> Unpack2(ix.s.heap[h].cache[co[i]])]
            IN IF FirstError(recs) # "ok" THEN Res(ix.s, FirstError(recs), <<>>)
               ELSE IF ~ix.s.heap[h].has_cache
                    THEN Res(ix.s, "AttributeError", <<>>)
               ELSE IF FirstError(cached) # "ok"
                    THEN Res(ix.s, FirstError(cached), <<>>)
               ELSE Res(ix.s, "ok", [i \in DOMAIN io |-> recs[i].item]
                                       \o [i \in DOMAIN co |-> cached[i].item]))

\* SQLiteDict.iterkeys: the keys of the rows of the current table, then the
\* keys of its cache. ord is the order of the rows, co of the cache.
SqlIterKeys(s, h, ord, co) ==
    LET o == s.heap[h]
        tb == o.current_table
    IN IF ~ConnOk(s, h) THEN Res(s, ConnError(s, h), <<>>)
       ELSE IF ~IsTableExist(s, h, tb) THEN Res(s, "OperationalError", <<>>)
       ELSE Res(s, "ok", ord \o co)

\* SQLiteDict.iteritems: the rows, then the items of the cache
SqlIterItems(s, h, ord, co) ==
    LET o == s.heap[h]
        tb == o.current_table
    IN IF ~ConnOk(s, h) THEN Res(s, ConnError(s, h), <<>>)
       ELSE IF ~IsTableExist(s, h, tb) THEN Res(s, "OperationalError", <<>>)
       ELSE LET rows == [i \in DOMAIN ord |->
                           LET v == MarshalLoads(o.view_rows[tb][ord[i]])
                           IN [status |-> IF v.ok THEN "ok" ELSE "MarshalError",
                               item |-> <<ord[i], v.v>>]]
            IN IF FirstError(rows) # "ok" THEN Res(s, FirstError(rows), <<>>)
               ELSE Res(s, "ok", [i \in DOMAIN ord |-> rows[i].item]
                                    \o [i \in DOMAIN co |->
                                          <<co[i], o.caches[tb][co[i]]>>])

\* obj.iterkeys(), obj.iteritems()
IterKeys(s, h, ord, co) ==
    IF s.heap[h].cls = "MmapDict" THEN MmapIterKeys(s, h, ord, co)
    ELSE SqlIterKeys(s, h, ord, co)
IterItems(s, h, ord, co) ==
    IF s.heap[h].cls = "MmapDict" THEN MmapIterItems(s, h, ord, co)
    ELSE SqlIterItems(s, h, ord, co)

(* ------------------------------------------------------------------ *)
(* TableDict                                                           *)
(* ------------------------------------------------------------------ *)
\* the attributes TableDict.__init__ sets
TableDictAttrs == {"_sqlite", "_name"}

\* table_context() up to its yield: set_table(self._table_name)
TableContext(s, h, name) ==
    IF "_table_name" \notin TableDictAttrs THEN Res(s, "AttributeError", Void)
    ELSE SqlSetTable(s, h, name)

\* with self.table_context(): Op. The generator has no try: when Op
\* raises, the set_table(curr_tab) after the yield does not run.
InTable(s, h, name, Op(_)) ==
    Bind(TableContext(s, h, name), LAMBDA e :
       IF e.status # "ok" THEN e
       ELSE Bind(Op(e.s), LAMBDA r :
               IF r.status # "ok" THEN r
               ELSE Bind(SqlSetTable(r.s, h, s.heap[h].current_table), LAMBDA x :
                       IF x.status # "ok" THEN x ELSE Res(x.s, "ok", r.ret))))

\* the dictionary methods of the view as_table(name) of h
TableSetItem(s, h, name, key, value, ord) ==
    InTable(s, h, name, LAMBDA x : SqlSetItem(x, h, key, value, ord))
TableGetItem(s, h, name, key) ==
    InTable(s, h, name, LAMBDA x : SqlGetItem(x, h, key))
TableDelItem(s, h, name, key) ==
    InTable(s, h, name, LAMBDA x : SqlDelItem(x, h, <<key>>))
TableContains(s, h, name, key) ==
    InTable(s, h, name, LAMBDA x : SqlContains(x, h, key))
TableLen(s, h, name) ==
    InTable(s, h, name, LAMBDA x : SqlLen(x, h))
TableFlush(s, h, name, ord) ==
    InTable(s, h, name, LAMBDA x : Flush(x, h, FALSE, ord))
TableUpdate(s, h, name, key, value, ord) ==
    InTable(s, h, name, LAMBDA x : Update(x, h, key, value, ord))
TableClear(s, h, name, ord) ==
    InTable(s, h, name, LAMBDA x : Clear(x, h, ord))

(* ------------------------------------------------------------------ *)
(* Pickling                                                            *)
(* ------------------------------------------------------------------ *)
\* a text among the values a call returns
VText(s) == [t |-> "text", n |-> 0, xs |-> <<>>, s |-> s]

\* __getnewargs__()
GetNewArgs(s, h) ==
    LET o == s.heap[h] IN
    Res(SetObj(s, h, [o EXCEPT !.new_args_called = TRUE]), "ok",
        VTuple(<<VText(o.path)>>))

\* a __getstate__ that leaves _new_args_called set
GetStateKeepsFlag(s, h) ==
    LET o == s.heap[h] IN
    IF ~o.new_args_called THEN Res(s, "RuntimeError", Void)
    ELSE Res(s, "ok",
             VTuple(<<VText(o.path), VBool(o.read_only), VInt(o.cache_size)>>))

\* __getstate__()
GetState(s, h) ==
    LET o == s.heap[h] IN
    IF ~o.new_args_called THEN Res(s, "RuntimeError", Void)
    ELSE Res(SetObj(s, h, [o EXCEPT !.new_args_called = FALSE]), "ok",
             VTuple(<<VText(o.path), VBool(o.read_only), VInt(o.cache_size)>>))

(* ------------------------------------------------------------------ *)
(* The state machine                                                   *)
(* ------------------------------------------------------------------ *)
RECURSIVE Perms(_)
Perms(S) == IF S = {} THEN {<<>>}
            ELSE UNION {{<<x>> \o p : p \in Perms(S \ {x})} : x \in S}

NoCall == [op |-> "none", h |-> 0, key |-> NoKey, status |-> "ok", ret |-> Void]
Call(op, h, key, r) ==
    [op |-> op, h |-> h, key |-> key, status |-> r.status, ret |-> r.ret]

\* no mapped file beyond the bound of the model
Fits(s) == \A i \in InodeIds : Len(s.files[i].body) <= MaxBody

\* the objects the caller can use
Held == {h \in Ids : heap[h].held}
Open == {h \in Held : ~heap[h].is_closed}

Become(s) ==
    /\ Fits(s)
    /\ instances' = s.inst
    /\ heap' = s.heap
    /\ files' = s.files
    /\ dir' = s.dir

\* the call `op` of the caller, with the outcome r
Does(op, h, key, r) ==
    /\ Become(r.s)
    /\ last' = Call(op, h, key, r)

Init ==
    /\ instances = [c \in Classes |-> EmptyDict]
    /\ heap = [h \in Ids |-> BlankObj]
    /\ files = [i \in InodeIds |-> NoFile]
    /\ dir = [p \in Paths |-> 0]
    /\ last = NoCall

Opens(r) ==
    /\ Become(r.s)
    /\ last' = [NoCall EXCEPT !.op = "open", !.h = r.h, !.status = r.status]

DoOpen(cls, raw, read_only, cache_size, override) ==
    /\ Registered(State, cls, AbsPath(raw)) \/ Alive(State) # Ids
    /\ Opens(Construct(State, cls, raw, read_only, cache_size, override))

DoClose(h, ord) ==
    Does("close", h, NoKey, Close(State, h, ord))

DoFlush(h, save_all, ord) ==
    Does(IF save_all THEN "flush_all" ELSE "flush", h, NoKey,
         Flush(State, h, save_all, ord))

DoSet(h, key, value, ord) ==
    Does("set", h, key, SetItem(State, h, key, value, ord))

DoGet(h, key) ==
    Does("get", h, key, GetItem(State, h, key))

DoDel(h, key) ==
    Does("del", h, key, DelItem(State, h, key))

DoContains(h, key) ==
    Does("contains", h, key, Contains(State, h, key))

DoLen(h) ==
    Does("len", h, NoKey, Length(State, h))

DoUpdate(h, key, value, ord) ==
    Does("update", h, key, Update(State, h, key, value, ord))

DoClear(h, ord) ==
    Does("clear", h, NoKey, Clear(State, h, ord))

DoSetTable(h, name) ==
    /\ heap[h].cls = "SQLiteDict"
    /\ Does("set_table", h, KStr(name), SqlSetTable(State, h, name))

\* the task unpickling the indices ends
LoadFinish(h) ==
    /\ heap[h].idx = "future" /\ ~heap[h].finished
    /\ heap' = [heap EXCEPT ![h].finished = TRUE]
    /\ UNCHANGED <<instances, files, dir, last>>

\* the caller drops its reference to a closed object, which frees it
\* (__del__ calls close(), which returns at once)
Release(h) ==
    /\ heap[h].held /\ heap[h].is_closed
    /\ heap' = [heap EXCEPT ![h] = BlankObj]
    /\ UNCHANGED <<instances, files, dir, last>>

\* the keys of the dicts of object h: what an iteration order ranges over
AllKeys(h) ==
    DOMAIN heap[h].cache \cup DOMAIN heap[h].indices
    \cup DOMAIN PickleLoads(heap[h].pickled).d
    \cup UNION {DOMAIN heap[h].caches[t] : t \in TableNames}
OrdersOf(h) == Perms(AllKeys(h))
OrdersWith(h, key) == Perms(AllKeys(h) \cup {Str(key)})

\* The capacities the stores are opened with: 0, and those that let up to
\* MaxCap entries stay pending. A mapped store flushes when it holds more
\* entries than its capacity, a relational one when it holds as many.
CacheSizes(cls) == IF cls = "MmapDict" THEN 0..MaxCap ELSE {0, MaxCap + 1}

\* the kind of file a class makes
KindOf(cls) == IF cls = "MmapDict" THEN "mmap" ELSE "sqlite"

\* The calls of a caller that works with one store at a time, of a class in
\* CS, under the path "P": it opens another store only when it holds no
\* object, may open again the one it has, and keeps to one class as long
\* as a file or an object of that class is there.
Store(CS, KS, VS) ==
    \/ \E cls \in CS, ro \in BOOLEAN, ov \in BOOLEAN : \E c \in CacheSizes(cls) :
          /\ Registered(State, cls, AbsPath("P")) \/ Held = {}
          /\ \A i \in InodeIds : files[i].kind \in {"none", KindOf(cls)}
          /\ \A h \in Alive(State) : heap[h].cls = cls
          /\ DoOpen(cls, "P", ro, c, ov)
    \/ \E h \in Open : \E ord \in OrdersOf(h) : DoClose(h, ord)
    \/ \E h \in Held : Release(h)
    \/ \E h \in Open, sa \in BOOLEAN : \E ord \in OrdersOf(h) : DoFlush(h, sa, ord)
    \/ \E h \in Open, k \in KS, v \in VS :
          \E ord \in OrdersWith(h, k) : DoSet(h, k, v, ord)
    \/ \E h \in Open, k \in KS : DoGet(h, k)
    \/ \E h \in Open, k \in KS : DoDel(h, k)
    \/ \E h \in Open, k \in KS : DoContains(h, k)
    \/ \E h \in Open : DoLen(h)
    \/ \E h \in Open, k \in KS, v \in VS :
          \E ord \in OrdersWith(h, k) : DoUpdate(h, k, v, ord)
    \/ \E h \in Open : \E ord \in OrdersOf(h) : DoClear(h, ord)

\* a relational store changes its table
SetsTable(TS) == \E h \in Open, t \in TS : DoSetTable(h, t)

\* the unpickling of the index of a mapped store ends
Loads == \E h \in Open : LoadFinish(h)

\* The registry: both classes under two paths, one of them written in two
\* ways, and up to MaxHandles objects at a time. Only __new__ and close()
\* touch _INSTANCES; the caller here opens stores, writes to them, closes
\* them and drops them.
Next ==
    \/ \E cls \in Classes, raw \in RawPaths, ro \in BOOLEAN :
          DoOpen(cls, raw, ro, 1, FALSE)
    \/ \E h \in Open : \E ord \in OrdersOf(h) : DoClose(h, ord)
    \/ \E h \in Held : Release(h)
    \/ \E h \in Open : \E ord \in OrdersWith(h, KStr("a")) :
          DoSet(h, KStr("a"), VInt(1), ord)
    \/ \E h \in Open : LoadFinish(h)
Spec == Init /\ [][Next]_vars

StoreKeys == {KStr("a"), KInt("1")}
StoreTables == {"a", "None"}

\* one mapped store at a time
NextMmap == Store({"MmapDict"}, StoreKeys, {VInt(1)}) \/ Loads
SpecMmap == Init /\ [][NextMmap]_vars

\* one relational store at a time
NextSql ==
    Store({"SQLiteDict"}, StoreKeys, {VList(<<VNone>>)}) \/ SetsTable(StoreTables)
SpecSql == Init /\ [][NextSql]_vars

\* one store at a time, of either class
NextStores ==
    Store(Classes, StoreKeys, {VInt(1)}) \/ SetsTable(StoreTables) \/ Loads
SpecStores == Init /\ [][NextStores]_vars

\* the calls on the view as_table(name) of h
DoTableSet(h, name, key, value, ord) ==
    /\ heap[h].cls = "SQLiteDict"
    /\ Does("table_set", h, key, TableSetItem(State, h, name, key, value, ord))
DoTableGet(h, name, key) ==
    /\ heap[h].cls = "SQLiteDict"
    /\ Does("table_get", h, key, TableGetItem(State, h, name, key))
DoTableDel(h, name, key) ==
    /\ heap[h].cls = "SQLiteDict"
    /\ Does("table_del", h, key, TableDelItem(State, h, name, key))
DoTableContains(h, name, key) ==
    /\ heap[h].cls = "SQLiteDict"
    /\ Does("table_contains", h, key, TableContains(State, h, name, key))
DoTableLen(h, name) ==
    /\ heap[h].cls = "SQLiteDict"
    /\ Does("table_len", h, NoKey, TableLen(State, h, name))
DoTableFlush(h, name, ord) ==
    /\ heap[h].cls = "SQLiteDict"
    /\ Does("table_flush", h, NoKey, TableFlush(State, h, name, ord))
DoTableUpdate(h, name, key, value, ord) ==
    /\ heap[h].cls = "SQLiteDict"
    /\ Does("table_update", h, key, TableUpdate(State, h, name, key, value, ord))
DoTableClear(h, name, ord) ==
    /\ heap[h].cls = "SQLiteDict"
    /\ Does("table_clear", h, NoKey, TableClear(State, h, name, ord))

\* del obj[keys] with a list of keys
DoDelKeys(h, keys) ==
    /\ heap[h].cls = "SQLiteDict"
    /\ Does("del_keys", h, NoKey, SqlDelItem(State, h, keys))

\* the lists of keys a call is given: two distinct keys, in both orders
KeyLists == Perms(StoreKeys)

\* obj[keys] with a list of keys
DoGetKeys(h, keys, ord) ==
    /\ heap[h].cls = "SQLiteDict"
    /\ Does("get_keys", h, Head(keys), SqlGetItems(State, h, keys, ord))

\* the orders the rows of the current table of h may come in
RowOrders(h) ==
    IF heap[h].current_table \in TableNames
    THEN Perms(DOMAIN heap[h].view_rows[heap[h].current_table])
    ELSE {<<>>}

\* the lists of keys a get is given: two keys, one key, one key twice,
\* and a text that is the name of a column
GetLists ==
    KeyLists \cup {<<k>> : k \in StoreKeys} \cup {<<KStr("key")>>}
       \cup {<<KStr("a"), KStr("a")>>}

\* drop_table(name)
DoDropTable(h, name) ==
    /\ heap[h].cls = "SQLiteDict"
    /\ Does("drop_table", h, KStr(name), SqlDropTable(State, h, name))

\* the names drop_table is given: none, a table, the default table, and
\* the default table in capitals
DropNames == {"None", "a", DEFAULT_TABLE, "_DEFAULT_"}

\* the tables a view is taken of
ViewTables == {DEFAULT_TABLE, "a"}

\* the calls on the object that both specifications below have: the
\* caller opens one relational store under the path "P", switches tables,
\* sets, flushes, closes
TableBase ==
    \/ \E ro \in BOOLEAN : \E c \in CacheSizes("SQLiteDict") :
          /\ Registered(State, "SQLiteDict", AbsPath("P")) \/ Held = {}
          /\ DoOpen("SQLiteDict", "P", ro, c, FALSE)
    \/ \E h \in Open : \E ord \in OrdersOf(h) : DoClose(h, ord)
    \/ \E h \in Held : Release(h)
    \/ \E h \in Open, t \in StoreTables : DoSetTable(h, t)
    \/ \E h \in Open, k \in StoreKeys :
          \E ord \in OrdersWith(h, k) : DoSet(h, k, VList(<<VNone>>), ord)
    \/ \E h \in Open : \E ord \in OrdersOf(h) : DoFlush(h, FALSE, ord)

\* a relational store and the views of its tables: the caller also calls
\* the dictionary methods of the views
NextViews ==
    \/ TableBase
    \/ \E h \in Open, k \in StoreKeys : DoGet(h, k)
    \/ \E h \in Open, t \in ViewTables, k \in StoreKeys :
          \E ord \in OrdersWith(h, k) : DoTableSet(h, t, k, VList(<<VNone>>), ord)
    \/ \E h \in Open, t \in ViewTables, k \in StoreKeys : DoTableGet(h, t, k)
    \/ \E h \in Open, t \in ViewTables, k \in StoreKeys : DoTableDel(h, t, k)
    \/ \E h \in Open, t \in ViewTables, k \in StoreKeys : DoTableContains(h, t, k)
    \/ \E h \in Open, t \in ViewTables : DoTableLen(h, t)
    \/ \E h \in Open, t \in ViewTables :
          \E ord \in OrdersOf(h) : DoTableFlush(h, t, ord)
    \/ \E h \in Open, t \in ViewTables, k \in StoreKeys :
          \E ord \in OrdersWith(h, k) : DoTableUpdate(h, t, k, VList(<<VNone>>), ord)
    \/ \E h \in Open, t \in ViewTables :
          \E ord \in OrdersOf(h) : DoTableClear(h, t, ord)
SpecViews == Init /\ [][NextViews]_vars

\* a relational store and its tables: the caller also deletes one key or
\* a list of keys, gets a list of keys, and drops tables
NextTables ==
    \/ TableBase
    \/ \E h \in Open, k \in StoreKeys : DoDel(h, k)
    \/ \E h \in Open, ks \in KeyLists : DoDelKeys(h, ks)
    \/ \E h \in Open, ks \in GetLists :
          \E ord \in RowOrders(h) : DoGetKeys(h, ks, ord)
    \/ \E h \in Open, name \in DropNames : DoDropTable(h, name)
SpecTables == Init /\ [][NextTables]_vars

\* The opens of the path "P": stores of both classes, read-only or not,
\* with and without override, on whatever file the calls before have left
\* there; the caller also writes to the stores, closes and drops them.
NextOpen ==
    \/ \E cls \in Classes, ro \in BOOLEAN, ov \in BOOLEAN :
          DoOpen(cls, "P", ro, 1, ov)
    \/ \E h \in Open : \E ord \in OrdersOf(h) : DoClose(h, ord)
    \/ \E h \in Held : Release(h)
    \/ \E h \in Open : \E ord \in OrdersWith(h, KStr("a")) :
          DoSet(h, KStr("a"), VInt(1), ord)
    \/ \E h \in Open : LoadFinish(h)
SpecOpen == Init /\ [][NextOpen]_vars

DoGetNewArgs(h) ==
    Does("getnewargs", h, NoKey, GetNewArgs(State, h))

DoGetState(h) ==
    Does("getstate", h, NoKey, GetState(State, h))

\* The pickling of the objects: the caller opens stores of both classes
\* under the path "P", closes and drops them, and a pickler calls
\* __getnewargs__ and __getstate__ on the objects the caller holds, in any
\* order.
NextPickle ==
    \/ \E cls \in Classes, ro \in BOOLEAN, c \in 0..MaxCap :
          DoOpen(cls, "P", ro, c, FALSE)
    \/ \E h \in Open : \E ord \in OrdersOf(h) : DoClose(h, ord)
    \/ \E h \in Held : Release(h)
    \/ \E h \in Held : DoGetNewArgs(h)
    \/ \E h \in Held : DoGetState(h)
    \/ \E h \in Open : LoadFinish(h)
SpecPickle == Init /\ [][NextPickle]_vars

\* One writable mapped store under the path "P", written with two values,
\* so that a record written over another one shows in the bytes.
GrowValues == {VInt(1), VInt(2)}
NextGrow ==
    \/ \E c \in 0..MaxCap :
          /\ Registered(State, "MmapDict", AbsPath("P")) \/ Held = {}
          /\ DoOpen("MmapDict", "P", FALSE, c, FALSE)
    \/ \E h \in Open : \E ord \in OrdersOf(h) : DoClose(h, ord)
    \/ \E h \in Held : Release(h)
    \/ \E h \in Open, sa \in BOOLEAN : \E ord \in OrdersOf(h) : DoFlush(h, sa, ord)
    \/ \E h \in Open, k \in StoreKeys, v \in GrowValues :
          \E ord \in OrdersWith(h, k) : DoSet(h, k, v, ord)
    \/ \E h \in Open, k \in StoreKeys : DoDel(h, k)
    \/ Loads
SpecGrow == Init /\ [][NextGrow]_vars

\* The mapped store with the task of the index: a task that can end does
\* end, whatever the caller does meanwhile.
SpecLoad == Init /\ [][NextMmap]_vars /\ WF_vars(Loads)

\* the other process opens the file
DoOpenRemote(raw, c) ==
    /\ Alive(State) # Ids
    /\ \A h \in Ids : ~heap[h].remote
    /\ Opens(OpenRemote(State, raw, c))

DoFlushRead(h) ==
    /\ heap[h].pc = "idle" /\ ~heap[h].read_only
    /\ Does("flush_read", h, NoKey, FlushReadStep(State, h))

DoFlushAppend(h, ord) ==
    /\ heap[h].pc = "read"
    /\ Does("flush_append", h, NoKey, FlushAppendStep(State, h, ord))

DoFlushHeader(h) ==
    /\ heap[h].pc = "appended"
    /\ Does("flush_all", h, NoKey, FlushHeaderStep(State, h))

\* the value a process writes: each process its own, so that the bytes of
\* a record tell who wrote it
ValueOf(h) == IF heap[h].remote THEN VInt(2) ELSE VInt(1)

\* Two processes with a writable mapped store each on the file at "P":
\* this process makes the file, the other one opens it, both set keys and
\* both call flush(save_all=True), whose steps run in any order. A process
\* sets one key between two flushes, and the capacities are such that no
\* set flushes.
NextRace ==
    \/ /\ ~Registered(State, "MmapDict", AbsPath("P"))
       /\ DoOpen("MmapDict", "P", FALSE, Cardinality(StoreKeys), FALSE)
    \/ /\ Exists(State, AbsPath("P"))
       /\ DoOpenRemote("P", Cardinality(StoreKeys))
    \/ \E h \in Open, k \in StoreKeys :
          /\ heap[h].pc = "idle" /\ heap[h].cache = EmptyDict
          /\ \E ord \in OrdersWith(h, k) : DoSet(h, k, ValueOf(h), ord)
    \/ \E h \in Open : DoFlushRead(h)
    \/ \E h \in Open : \E ord \in OrdersOf(h) : DoFlushAppend(h, ord)
    \/ \E h \in Open : DoFlushHeader(h)
    \/ Loads
SpecRace == Init /\ [][NextRace]_vars

(* ------------------------------------------------------------------ *)
(* The registry                                                        *)
(* ------------------------------------------------------------------ *)
\* the objects that are not closed
Live == {h \in Alive(State) : ~heap[h].is_closed}

\* every entry of the registry is an object of that class and path
RegistryKeyed ==
    \A cls \in Classes : \A path \in DOMAIN instances[cls] :
        /\ instances[cls][path] \in Alive(State)
        /\ heap[instances[cls][path]].cls = cls
        /\ heap[instances[cls][path]].path = path

\* an open of a registered (class, path) returns the registered object, and
\* an open changes no entry of the other class
OpenReturnsRegistered ==
    \A cls \in Classes, raw \in RawPaths, ro \in BOOLEAN :
        DoOpen(cls, raw, ro, 1, FALSE) =>
            /\ Registered(State, cls, AbsPath(raw)) =>
                  /\ last'.h = instances[cls][AbsPath(raw)]
                  /\ instances' = instances
            /\ \A other \in Classes \ {cls} : instances'[other] = instances[other]

\* C1: at any time no two objects that are not closed have the same class
\* and absolute path, every registry entry is an object of its class and
\* path, an open of a (class, path) that is registered returns the
\* registered object without registering anything, and an open leaves the
\* entries of the other class as they were.
C1_OneLiveHandle ==
    /\ [](\A h1 \in Live, h2 \in Live :
             h1 # h2 => <<heap[h1].cls, heap[h1].path>> # <<heap[h2].cls, heap[h2].path>>)
    /\ []RegistryKeyed
    /\ [][OpenReturnsRegistered]_vars

\* an open has just returned the object of an already registered (class,
\* path), or failed on it, while an open store of the other class has the
\* same path: each is registered under its own class
C1_Witness ==
    /\ last.op = "open"
    /\ \E h2 \in Open \ {last.h} :
          /\ last.h \in Live
          /\ heap[h2].path = heap[last.h].path
          /\ heap[h2].cls # heap[last.h].cls
          /\ instances[heap[h2].cls][heap[h2].path] = h2
          /\ instances[heap[last.h].cls][heap[last.h].path] = last.h

(* ------------------------------------------------------------------ *)
(* What is durable                                                     *)
(* ------------------------------------------------------------------ *)
\* the four state variables after the step
StateNext == [inst |-> instances', heap |-> heap', files |-> files', dir |-> dir']

\* the files of s alone: no object, nothing registered
Cold(s) ==
    Reclaim([s EXCEPT !.inst = [c \in Classes |-> EmptyDict],
                      !.heap = [h \in Ids |-> BlankObj]])

\* cls(path), then set_table(table) on a relational store, on the files of s
Reopen(s, cls, table) ==
    Bind(Construct(Cold(s), cls, "P", FALSE, 1, FALSE), LAMBDA c :
       IF c.status # "ok" \/ cls = "MmapDict" THEN c
       ELSE Bind(SqlSetTable(c.s, c.h, table), LAMBDA t :
               [s |-> t.s, status |-> t.status, h |-> c.h]))

\* what get(key) returns after a fresh open of the path
StoredGet(s, cls, table, key) ==
    Bind(Reopen(s, cls, table), LAMBDA c :
       IF c.status # "ok" THEN Res(c.s, c.status, Void)
       ELSE GetItem(c.s, c.h, key))

Stored(s, cls, table, key, value) ==
    Bind(StoredGet(s, cls, table, key), LAMBDA r :
       r.status = "ok" /\ r.ret = value)

\* the entries pending in the write cache of h: <<table, key, value>>
Pending(h) ==
    IF heap[h].cls = "MmapDict"
    THEN {<<DEFAULT_TABLE, k, heap[h].cache[k]>> : k \in DOMAIN heap[h].cache}
    ELSE UNION {{<<t, k, heap[h].caches[t][k]>> : k \in DOMAIN heap[h].caches[t]} :
                   t \in TableNames}

(* ------------------------------------------------------------------ *)
(* close()                                                             *)
(* ------------------------------------------------------------------ *)
\* C2: when close() returns on a store that is not read-only, every entry
\* that was pending in its write cache is in the file: a later open of the
\* path (and of the table) returns its value for get.
C2_ClosePersists ==
    [][\A h \in Open : \A ord \in OrdersOf(h) :
          (DoClose(h, ord) /\ ~heap[h].read_only /\ last'.status = "ok") =>
              \A e \in Pending(h) :
                  Stored(StateNext, heap[h].cls, e[1], KStr(e[2]), e[3])]_vars

(* ------------------------------------------------------------------ *)
(* set, flush, get                                                     *)
(* ------------------------------------------------------------------ *)
\* the stores the caller may write to
Writable == {h \in Open : ~heap[h].read_only}

\* obj[key] = value; obj.flush(); obj[key]: TRUE unless the two first calls
\* return and the third does not return `value`
RoundTrip(h, key, value, ord1, ord2) ==
    Bind(SetItem(State, h, key, value, ord1), LAMBDA a :
       a.status = "ok" =>
          Bind(Flush(a.s, h, FALSE, ord2), LAMBDA b :
             b.status = "ok" =>
                Bind(GetItem(b.s, h, key), LAMBDA c :
                   c.status = "ok" /\ c.ret = value)))

\* C3: on a store that is not read-only, for every key, text or not, and
\* every value, set(k, v); flush(); get(k) returns v.
C3_RoundTrip ==
    \A h \in Writable : \A key \in StoreKeys, value \in {VInt(1), VList(<<VNone>>)} :
        \A ord \in OrdersWith(h, key) : RoundTrip(h, key, value, ord, ord)

(* ------------------------------------------------------------------ *)
(* get                                                                 *)
(* ------------------------------------------------------------------ *)
\* the write cache get looks at: of the current table in a relational store
CurrentCache(s, h) ==
    IF s.heap[h].cls = "MmapDict" THEN s.heap[h].cache
    ELSE IF s.heap[h].current_table \in TableNames
         THEN s.heap[h].caches[s.heap[h].current_table] ELSE EmptyDict

\* what is stored under the text k: [found, value]. In a mapped store the
\* record at the index entry of k, in a relational one the row of k in the
\* current table.
Durable(s, h, k) ==
    IF s.heap[h].cls = "MmapDict"
    THEN Bind(Indices(s, h), LAMBDA ix :
            IF ix.ok /\ k \in DOMAIN ix.d
            THEN [found |-> TRUE,
                  value |-> MarshalLoads(MmapRead(ix.s, h, ix.d[k][1], ix.d[k][2])).v]
            ELSE [found |-> FALSE, value |-> Void])
    ELSE IF s.heap[h].current_table \in TableNames
            /\ k \in DOMAIN s.heap[h].view_rows[s.heap[h].current_table]
         THEN [found |-> TRUE,
               value |-> MarshalLoads(
                            s.heap[h].view_rows[s.heap[h].current_table][k]).v]
         ELSE [found |-> FALSE, value |-> Void]

\* get(k) gives the pending value, else the stored one, else KeyError
GetAnswers(h, k) ==
    Bind(GetItem(State, h, KStr(k)), LAMBDA r :
       IF k \in DOMAIN CurrentCache(State, h)
       THEN r.status = "ok" /\ r.ret = CurrentCache(State, h)[k]
       ELSE IF Durable(State, h, k).found
            THEN r.status = "ok" /\ r.ret = Durable(State, h, k).value
            ELSE r.status = "KeyError")

\* the index of a mapped store is in memory (no load is under way)
IndexInMemory(h) == heap[h].cls = "MmapDict" => heap[h].idx = "dict"

\* C4: get(k) with one key returns the value pending in the write cache
\* when k is there, else the value stored under k, and fails with KeyError
\* exactly when k is in neither. Stated for the stores whose index is in
\* memory.
C4_GetSemantics ==
    \A h \in Open : IndexInMemory(h) => \A k \in {"a", "1"} : GetAnswers(h, k)

(* ------------------------------------------------------------------ *)
(* opening a path that is open                                         *)
(* ------------------------------------------------------------------ *)
\* what the caller can tell of an object: its flags, what is pending, the
\* index in memory or the current table
Visible(o) ==
    [read_only |-> o.read_only, cache_size |-> o.cache_size,
     cache |-> o.cache, caches |-> o.caches,
     indices |-> o.indices, current_table |-> o.current_table]

\* C5: an open of a (class, path) that has an open object returns that
\* object as it was: its read-only flag, capacity, pending entries, index or
\* current table and the file are those from before the call, whatever
\* arguments the call passes.
C5_ReopenUnchanged ==
    [][\A cls \in Classes, ro \in BOOLEAN, ov \in BOOLEAN : \A c \in CacheSizes(cls) :
          (/\ Registered(State, cls, AbsPath("P"))
           /\ instances[cls][AbsPath("P")] \in Open
           /\ DoOpen(cls, "P", ro, c, ov)) =>
              /\ last'.h = instances[cls][AbsPath("P")]
              /\ Visible(heap'[last'.h]) = Visible(heap[last'.h])
              /\ files' = files /\ dir' = dir]_vars

(* ------------------------------------------------------------------ *)
(* The index in the mapped file                                        *)
(* ------------------------------------------------------------------ *)
\* the dict_size bytes at max_position, unpickled: [ok, d]
PersistedIndex(f) == PickleLoads(ReadAt(f, f.max_position, f.dict_size))

\* the file of object h before and after the step
FileOf(h) == files[heap[h].fd]
FileOfNext(h) == files'[heap[h].fd]

\* C6: when a flush of a mapped store returns, the dict_size bytes at the
\* max_position of the header are a complete pickled index; a flush that
\* does not save the index leaves the index saved before in place, so the
\* header still leads to the same keys. Stated for the flushes that start
\* with a complete index in the file.
C6_IndexLocatable ==
    [][\A h \in Writable : \A sa \in BOOLEAN : \A ord \in OrdersOf(h) :
          (/\ heap[h].cls = "MmapDict"
           /\ PersistedIndex(FileOf(h)).ok
           /\ DoFlush(h, sa, ord)
           /\ last'.status = "ok") =>
              /\ PersistedIndex(FileOfNext(h)).ok
              /\ ~SaveIndices(sa, heap[h].increased) =>
                    DOMAIN PersistedIndex(FileOfNext(h)).d
                       = DOMAIN PersistedIndex(FileOf(h)).d]_vars

(* ------------------------------------------------------------------ *)
(* Read-only stores                                                    *)
(* ------------------------------------------------------------------ *)
ReadOnly == {h \in Open : heap[h].read_only}

\* a call that changes the store, on h
Writes(h) ==
    \/ \E k \in StoreKeys, v \in {VInt(1), VList(<<VNone>>)} :
          \E ord \in OrdersWith(h, k) : DoSet(h, k, v, ord) \/ DoUpdate(h, k, v, ord)
    \/ \E k \in StoreKeys : DoDel(h, k)
    \/ \E ord \in OrdersOf(h) : DoClear(h, ord)
    \/ \E sa \in BOOLEAN : \E ord \in OrdersOf(h) : DoFlush(h, sa, ord)

\* C7: on a store opened read-only, set, delete, update, clear and flush
\* return without raising and leave the object, the files and the registry
\* as they were.
C7_ReadOnlyNoOps ==
    [][\A h \in ReadOnly :
          Writes(h) => /\ last'.status = "ok"
                       /\ heap' = heap /\ files' = files /\ dir' = dir
                       /\ instances' = instances]_vars

(* ------------------------------------------------------------------ *)
(* set and the size of the write cache                                 *)
(* ------------------------------------------------------------------ *)
\* the number of entries of a dict
Size(d) == Cardinality(DOMAIN d)

\* the write cache that set(key, value) makes of that of h before it flushes
WithKey(h, key, value) == DictSet(CurrentCache(State, h), Str(key), value)

\* set flushes: a mapped store with more entries than its capacity, a
\* relational one with as many
SetFlushes(h, cache) ==
    IF heap[h].cls = "MmapDict" THEN Size(cache) > heap[h].cache_size
    ELSE Size(cache) >= heap[h].cache_size

\* a set that returns either flushed, and the cache is empty, or put
\* str(key) in the cache and left the rest of the object and the files alone
SetOnlyCaches(h, key, value) ==
    IF SetFlushes(h, WithKey(h, key, value))
    THEN CurrentCache(StateNext, h) = EmptyDict
    ELSE /\ CurrentCache(StateNext, h) = WithKey(h, key, value)
         /\ \A t \in TableNames \ {heap[h].current_table} :
               heap'[h].caches[t] = heap[h].caches[t]
         /\ heap'[h].indices = heap[h].indices
         /\ heap'[h].view_rows = heap[h].view_rows
         /\ files' = files /\ dir' = dir /\ instances' = instances

\* the set calls on a store that is not read-only which return
SetReturns(h, key, value) ==
    /\ last'.op = "set" /\ last'.h = h /\ last'.key = key
    /\ last'.status = "ok"
    /\ \E ord \in OrdersWith(h, key) : DoSet(h, key, value, ord)

Fresh(h) ==
    /\ Pending(h) = {}
    /\ IF heap[h].cls = "MmapDict"
       THEN /\ heap[h].has_cache
            /\ heap[h].idx = "dict" /\ heap[h].indices = EmptyDict
            /\ FileOf(h) = NewMmapFile
       ELSE /\ ConnOk(State, h)
            /\ heap[h].current_table \in TableNames
            /\ heap[h].view_rows = NoRows
            /\ FileOf(h).rows = NoRows

\* the orders of n distinct text keys
KeySeqs(n) ==
    UNION {Perms(S) : S \in {T \in SUBSET TextKeys : Cardinality(T) = n}}

\* obj[k] = value for the keys k in turn, up to the first that raises
RECURSIVE SetAll(_, _, _, _, _)
SetAll(s, h, keys, value, ord) ==
    IF keys = <<>> THEN Res(s, "ok", Void)
    ELSE Bind(SetItem(s, h, KStr(Head(keys)), value, ord), LAMBDA r :
            IF r.status # "ok" THEN r
            ELSE SetAll(r.s, h, Tail(keys), value, ord))

\* the keys of `keys` that an open of the files of s alone finds with value
Recoverable(s, h, keys, value) ==
    {k \in Range(keys) :
        Stored(s, heap[h].cls, heap[h].current_table, KStr(k), value)}

\* C9: on a store just created and not read-only, of capacity c, after
\* c + 1 distinct keys are set with no flush by the caller, an open of the
\* file alone finds at least c of them.
C9_CacheTriggerDurable ==
    \A h \in Writable : Fresh(h) =>
        \A keys \in KeySeqs(heap[h].cache_size + 1) :
           \A ord \in Perms(Range(keys)) :
              Bind(SetAll(State, h, keys, VInt(1), ord), LAMBDA r :
                 r.status = "ok" =>
                    Cardinality(Recoverable(r.s, h, keys, VInt(1)))
                       >= heap[h].cache_size)

(* ------------------------------------------------------------------ *)
(* The tables of a relational store                                    *)
(* ------------------------------------------------------------------ *)
Relational == {h \in Open : heap[h].cls = "SQLiteDict"}

\* a call of set, get, del, contains or len on h
ItemCall(h) ==
    /\ last'.h = h
    /\ \/ /\ last'.op = "set"
          /\ \E v \in {VInt(1), VList(<<VNone>>)} :
                \E ord \in OrdersWith(h, last'.key) : DoSet(h, last'.key, v, ord)
       \/ last'.op = "get" /\ DoGet(h, last'.key)
       \/ last'.op = "del" /\ DoDel(h, last'.key)
       \/ last'.op = "contains" /\ DoContains(h, last'.key)
       \/ last'.op = "len" /\ DoLen(h)

\* the step leaves alone the tables of h that are not current, and which
\* table is current: their caches and the rows the connection sees are
\* kept, and their rows in the file change at most by the commit of what
\* the connection saw already
OtherTablesKept(h) ==
    /\ heap'[h].current_table = heap[h].current_table
    /\ heap'[h].view_tables = heap[h].view_tables
    /\ \A t \in TableNames \ {heap[h].current_table} :
          /\ heap'[h].caches[t] = heap[h].caches[t]
          /\ heap'[h].view_rows[t] = heap[h].view_rows[t]
          /\ FileOfNext(h).rows[t] \in {FileOf(h).rows[t], heap[h].view_rows[t]}

\* what get(key), `key in obj` and len(obj) answer in state s
Look(s, h, key) ==
    Bind(SqlGetItem(s, h, key), LAMBDA g :
    Bind(SqlContains(s, h, key), LAMBDA c :
    Bind(SqlLen(s, h), LAMBDA n :
       [get |-> <<g.status, g.ret>>, has |-> <<c.status, c.ret>>,
        len |-> <<n.status, n.ret>>])))

\* set_table(a); obj[key] = value; a flush or none; set_table(b);
\* del obj[key]; set_table(a): TRUE unless the calls return and either
\* table b answers otherwise than it would have without the calls on a, or
\* table a does not give back the value
TwoTables(h, a, b, key, value, flushed, ord) ==
    Bind(SqlSetTable(State, h, b), LAMBDA b0 :
    Bind(SqlSetTable(State, h, a), LAMBDA a1 :
    Bind(SqlSetItem(a1.s, h, key, value, ord), LAMBDA a2 :
    Bind(IF flushed /\ a2.status = "ok"
         THEN Flush(a2.s, h, FALSE, ord) ELSE a2, LAMBDA a3 :
    Bind(SqlSetTable(a3.s, h, b), LAMBDA b1 :
    Bind(SqlDelItem(b1.s, h, <<key>>), LAMBDA b2 :
    Bind(SqlSetTable(b2.s, h, a), LAMBDA a4 :
       (\A r \in {b0, a1, a2, a3, b1, b2, a4} : r.status = "ok") =>
          /\ Look(b1.s, h, key) = Look(b0.s, h, key)
          /\ Look(a4.s, h, key).get = <<"ok", value>>
          /\ Look(a4.s, h, key).has = <<"ok", VBool(TRUE)>>)))))))

DirectGet(h, name, key) ==
    Bind(SqlSetTable(State, h, name), LAMBDA t :
       IF t.status # "ok" THEN <<t.status, Void>>
       ELSE Bind(SqlGetItem(t.s, h, key), LAMBDA g : <<g.status, g.ret>>))

\* C11: a dictionary call on the view as_table(name) acts on the table
\* `name` whatever table is current on the object, and leaves current the
\* table that was: get on the view answers what get on the object answers
\* with `name` current, and the current table after it is the one before.
C11_ViewActsOnItsTable ==
    [][\A h \in Relational : \A name \in ViewTables, key \in StoreKeys :
          (/\ last'.op = "table_get" /\ last'.h = h /\ last'.key = key
           /\ DoTableGet(h, name, key)) =>
              /\ <<last'.status, last'.ret>> = DirectGet(h, name, key)
              /\ heap'[h].current_table = heap[h].current_table]_vars

(* ------------------------------------------------------------------ *)
(* del on a mapped store                                               *)
(* ------------------------------------------------------------------ *)
Mapped == {h \in Open : heap[h].cls = "MmapDict"}

\* C12: del obj[k] on a mapped store that is not read-only removes k
\* alone: the entry of k in the write cache when k is pending, else the
\* entry of k in the index; the other entries of the cache and of the
\* index are kept, and the object still has its cache, so that set, get
\* and flush work after it.
C12_DelRemovesOnlyKey ==
    [][\A h \in Mapped \cap Writable : \A key \in StoreKeys :
          (/\ last'.op = "del" /\ last'.h = h /\ last'.key = key
           /\ last'.status = "ok"
           /\ IndexInMemory(h)
           /\ DoDel(h, key)) =>
              /\ heap'[h].has_cache
              /\ IF InDict(heap[h].cache, key)
                 THEN /\ heap'[h].cache = DictDel(heap[h].cache, Str(key))
                      /\ heap'[h].indices = heap[h].indices
                 ELSE /\ heap'[h].cache = heap[h].cache
                      /\ heap'[h].indices = DictDel(heap[h].indices, Str(key))]_vars

(* ------------------------------------------------------------------ *)
(* del on a relational store                                           *)
(* ------------------------------------------------------------------ *)
\* the texts of a list of keys
Texts(keys) == {Str(keys[i]) : i \in DOMAIN keys}

\* the step took the given keys out of the cache of the current table and
\* out of its rows, and left the other tables alone
KeysDeleted(h, keys) ==
    LET tb == heap[h].current_table IN
    /\ \A k \in Texts(keys) : k \notin DOMAIN heap'[h].caches[tb]
    /\ \A k \in Texts(keys) \ DOMAIN heap[h].caches[tb] :
          k \notin DOMAIN heap'[h].view_rows[tb]
    /\ \A t \in TableNames \ {tb} :
          /\ heap'[h].caches[t] = heap[h].caches[t]
          /\ heap'[h].view_rows[t] = heap[h].view_rows[t]

\* C13: del of one key or of a list of keys on a relational store that is
\* not read-only takes every given key that is pending out of the cache of
\* the current table and deletes the other given keys from the table, so
\* that no given key that was only in the table is found after it, with a
\* list of keys as with one key; the other tables are left alone.
C13_DelKeys ==
    [][\A h \in Relational \cap Writable :
          /\ \A key \in StoreKeys :
                (/\ last'.op = "del" /\ last'.h = h /\ last'.key = key
                 /\ last'.status = "ok"
                 /\ DoDel(h, key)) => KeysDeleted(h, <<key>>)
          /\ \A keys \in KeyLists :
                (/\ last'.op = "del_keys" /\ last'.h = h
                 /\ last'.status = "ok"
                 /\ DoDelKeys(h, keys)) => KeysDeleted(h, keys)]_vars

(* ------------------------------------------------------------------ *)
(* get with several keys                                               *)
(* ------------------------------------------------------------------ *)
\* the text k is neither pending in the current table nor in its rows
Absent(h, k) ==
    /\ k \notin DOMAIN CurrentCache(State, h)
    /\ k \notin DOMAIN heap[h].view_rows[heap[h].current_table]

\* C14: get with a list of keys on a relational store fails with KeyError
\* and returns no list when one of the keys asked for is not in the store.
C14_MultiGetAbsent ==
    [][\A h \in Relational : \A keys \in GetLists :
          (/\ last'.op = "get_keys" /\ last'.h = h
           /\ \E k \in Texts(keys) : Absent(h, k)
           /\ \E ord \in RowOrders(h) : DoGetKeys(h, keys, ord)) =>
              /\ last'.status = "KeyError"
              /\ last'.ret = Void]_vars

(* ------------------------------------------------------------------ *)
(* flush on a relational store                                         *)
(* ------------------------------------------------------------------ *)
\* the rows of table t once its pending entries are in it
RowsWithPending(h, t) ==
    [k \in DOMAIN heap[h].view_rows[t] \cup DOMAIN heap[h].caches[t] |->
        IF k \in DOMAIN heap[h].caches[t] THEN MarshalDumps(heap[h].caches[t][k])
        ELSE heap[h].view_rows[t][k]]

\* the step moved the pending entries of table t into the table, committed
\* them and emptied the cache of t
TableFlushed(h, t) ==
    /\ heap'[h].caches[t] = EmptyDict
    /\ heap'[h].view_rows[t] = RowsWithPending(h, t)
    /\ FileOfNext(h).rows[t] = RowsWithPending(h, t)

\* the step left the cache and the rows of table t as they were
TableKept(h, t) ==
    /\ heap'[h].caches[t] = heap[h].caches[t]
    /\ heap'[h].view_rows[t] = heap[h].view_rows[t]

\* the tables flush(save_all) is to flush
FlushedTables(h, save_all) ==
    IF save_all THEN Range(heap[h].view_tables) ELSE {heap[h].current_table}

\* what C15 says of a flush of h that has run
FlushMoves(h, save_all) ==
    /\ last'.status = "ok"
    /\ \A t \in TableNames :
          IF t \in FlushedTables(h, save_all)
          THEN TableFlushed(h, t) ELSE TableKept(h, t)
    /\ heap'[h].current_table = heap[h].current_table

\* C15: flush(save_all=False) on a relational store that is not read-only
\* moves every pending entry of the current table into the table, commits
\* and empties that cache, and leaves the other tables as they were;
\* flush(save_all=True) does so for every table of the database; after
\* both the current table is the one from before.
C15_RelationalFlush ==
    [][\A h \in Relational \cap Writable : \A sa \in BOOLEAN :
          (/\ last'.op = (IF sa THEN "flush_all" ELSE "flush") /\ last'.h = h
           /\ ConnOk(State, h)
           /\ IsTableExist(State, h, heap[h].current_table)
           /\ \E ord \in OrdersOf(h) : DoFlush(h, sa, ord)) =>
              FlushMoves(h, sa)]_vars

(* ------------------------------------------------------------------ *)
(* The registry and close()                                            *)
(* ------------------------------------------------------------------ *)
\* no entry of the registry is a closed object
NoClosedEntry ==
    \A cls \in Classes : \A path \in DOMAIN instances[cls] :
        ~heap[instances[cls][path]].is_closed

\* an entry leaves the registry only in a close() of its object
OnlyCloseRemoves ==
    \A cls \in Classes : \A path \in DOMAIN instances[cls] :
        (path \notin DOMAIN instances'[cls]
           \/ instances'[cls][path] # instances[cls][path]) =>
              /\ last'.op = "close"
              /\ last'.h = instances[cls][path]

\* close() of an object that is not closed takes its entry out
CloseRemoves ==
    \A h \in Open :
        (/\ last'.op = "close" /\ last'.h = h
         /\ \E ord \in OrdersOf(h) : DoClose(h, ord)) =>
            /\ heap'[h].is_closed
            /\ ~Registered(StateNext, heap[h].cls, heap[h].path)

\* an open of a (class, path) that is not registered, one that was closed
\* before included, makes a new object, which is not closed
OpenAfterClose ==
    \A cls \in Classes, raw \in RawPaths, ro \in BOOLEAN :
        (/\ last'.op = "open"
         /\ ~Registered(State, cls, AbsPath(raw))
         /\ DoOpen(cls, raw, ro, 1, FALSE)) =>
            /\ last'.h \notin Alive(State)
            /\ ~heap'[last'.h].is_closed
            /\ last'.status = "ok" => instances'[cls][AbsPath(raw)] = last'.h

\* C16: the registry never has a closed object under a path: close()
\* takes the entry of its object out, no other call takes an entry out,
\* and the open of a path after its close() makes a new object that is
\* not closed and does not return the closed one.
C16_NoClosedRegistered ==
    /\ []NoClosedEntry
    /\ [][OnlyCloseRemoves]_vars
    /\ [][CloseRemoves]_vars
    /\ [][OpenAfterClose]_vars

\* an open has just made a new object for a (class, path) while the
\* closed object of the same class and path is still held
C16_Witness ==
    /\ last.op = "open" /\ last.status = "ok"
    /\ last.h \in Open
    /\ instances[heap[last.h].cls][heap[last.h].path] = last.h
    /\ \E h \in Held \ Open :
          /\ h # last.h
          /\ heap[h].cls = heap[last.h].cls
          /\ heap[h].path = heap[last.h].path

(* ------------------------------------------------------------------ *)
(* Opening a mapped store                                              *)
(* ------------------------------------------------------------------ *)
\* the file under the path "P", NoFile when there is none
FileAt(s) == IF Exists(s, AbsPath("P")) THEN s.files[s.dir[AbsPath("P")]] ELSE NoFile

\* a file is there, is not empty and does not start with the header
BadHeader(f) == FileSize(f) > 0 /\ f.head # HEADER

\* what C17 says of the open MmapDict("P", read_only)
MmapOpenOutcome(read_only) ==
    /\ BadHeader(FileAt(State)) => last'.status = "FormatError"
    /\ (read_only /\ ~Exists(State, AbsPath("P"))) => last'.status = "NotFoundError"
    /\ (~read_only /\ ~Exists(State, AbsPath("P"))) =>
          /\ last'.status = "ok"
          /\ FileAt(StateNext) = NewMmapFile

\* C17: the open of a mapped store fails with a format error when the
\* file is there, is not empty and does not start with the 8 bytes of the
\* header, fails with a not-found error when it is read-only and no file
\* is there, and when it is not read-only and no file is there makes a
\* file of the header, max_position 104 and dict_size 0. Stated for the
\* opens without override, which would remove the file first.
C17_MmapOpen ==
    [][\A ro \in BOOLEAN :
          (last'.op = "open" /\ DoOpen("MmapDict", "P", ro, 1, FALSE)) =>
              MmapOpenOutcome(ro)]_vars

(* ------------------------------------------------------------------ *)
(* drop_table                                                          *)
(* ------------------------------------------------------------------ *)
\* the table drop_table(name) is to drop
TableToDrop(h, name) ==
    IF name = "None" THEN heap[h].current_table ELSE Canon(name)

\* every open relational store has its default table
DefaultTableExists ==
    \A h \in Relational : ConnOk(State, h) => IsTableExist(State, h, DEFAULT_TABLE)

\* what C18 says of the step drop_table(name) on h
DropOutcome(h, name) ==
    IF TableToDrop(h, name) = DEFAULT_TABLE
    THEN /\ last'.status = "ValueError"
         /\ IsTableExist(StateNext, h, DEFAULT_TABLE)
         /\ heap'[h].view_rows[DEFAULT_TABLE] = heap[h].view_rows[DEFAULT_TABLE]
    ELSE IsTableExist(State, h, TableToDrop(h, name)) =>
            /\ last'.status = "ok"
            /\ ~IsTableExist(StateNext, h, TableToDrop(h, name))

\* C18: drop_table fails with ValueError when the table to drop is the
\* default table, named or meant by None while it is current, and leaves
\* that table and its rows in place; another table that exists it
\* removes. So every open relational store has its default table at all
\* times. Stated for the stores that are not read-only.
C18_DefaultTableStays ==
    /\ [][\A h \in Relational \cap Writable : \A name \in DropNames :
             (/\ last'.op = "drop_table" /\ last'.h = h /\ last'.key = KStr(name)
              /\ ConnOk(State, h)
              /\ DoDropTable(h, name)) => DropOutcome(h, name)]_vars
    /\ []DefaultTableExists

(* ------------------------------------------------------------------ *)
(* Pickling an object                                                  *)
(* ------------------------------------------------------------------ *)
\* the state __getstate__ gives of object h
StateOf(h) ==
    VTuple(<<VText(heap[h].path), VBool(heap[h].read_only),
             VInt(heap[h].cache_size)>>)

\* __getstate__ on h: it raises and changes nothing when __getnewargs__
\* has not run since the state was last taken, else it gives the state and
\* uses up the leave
GetStateStep(h) ==
    (last'.op = "getstate" /\ last'.h = h /\ DoGetState(h)) =>
        IF heap[h].new_args_called
        THEN /\ last'.status = "ok" /\ last'.ret = StateOf(h)
             /\ ~heap'[h].new_args_called
        ELSE /\ last'.status = "RuntimeError" /\ last'.ret = Void
             /\ heap' = heap

\* __getnewargs__ on h gives the leave, and nothing else does
GetNewArgsStep(h) ==
    /\ (last'.op = "getnewargs" /\ last'.h = h /\ DoGetNewArgs(h)) =>
          /\ last'.status = "ok" /\ last'.ret = VTuple(<<VText(heap[h].path)>>)
          /\ heap'[h].new_args_called
    /\ (heap'[h].new_args_called /\ ~heap[h].new_args_called) =>
          /\ last'.op = "getnewargs" /\ last'.h = h
          /\ heap[h].held

\* C19: __getstate__ returns only when __getnewargs__ has run on the
\* object since its state was taken last (or since it was made); else it
\* raises and gives no state. When it returns it gives (path, read_only,
\* cache_size) and uses the leave up, so that the next __getstate__ needs
\* a __getnewargs__ of its own.
C19_GetStateNeedsNewArgs ==
    /\ [][\A h \in Held : GetStateStep(h)]_vars
    /\ [][\A h \in Ids : GetNewArgsStep(h)]_vars
    /\ [](\A h \in Ids : ~heap[h].held => ~heap[h].new_args_called)

\* __getstate__ has just returned the state of an object and used up its
\* leave
C19_Witness ==
    /\ last.op = "getstate" /\ last.status = "ok"
    /\ last.h \in Held
    /\ last.ret = StateOf(last.h)
    /\ ~heap[last.h].new_args_called

(* ------------------------------------------------------------------ *)
(* The layout a mapped flush leaves                                    *)
(* ------------------------------------------------------------------ *)
\* the index of an object as the property `indices` gives it
IndexIn(o) == IF o.idx = "dict" THEN o.indices ELSE PickleLoads(o.pickled).d

\* the bytes the records of keys[1..n] take
RECURSIVE RecordBytes(_, _, _)
RecordBytes(cache, keys, n) ==
    IF n <= 0 THEN 0
    ELSE RecordBytes(cache, keys, n - 1) + Len(MarshalDumps(cache[keys[n]]))

\* the records of `keys` lie one after the other from `start` on in file
\* g, and the index ix has each key at its own record
LaidOut(g, ix, cache, keys, start) ==
    \A i \in 1..Len(keys) :
        LET off == start + RecordBytes(cache, keys, i - 1)
            bs == MarshalDumps(cache[keys[i]])
        IN /\ ReadAt(g, off, Len(bs)) = bs
           /\ keys[i] \in DOMAIN ix
           /\ ix[keys[i]] = <<off, Len(bs)>>

\* every entry of ix lies in [DataStart, limit), and no two share a byte
IndexSound(ix, limit) ==
    /\ \A k \in DOMAIN ix :
          /\ DataStart <= ix[k][1]
          /\ ix[k][1] + ix[k][2] <= limit
    /\ \A k1, k2 \in DOMAIN ix :
          k1 # k2 => \/ ix[k1][1] + ix[k1][2] <= ix[k2][1]
                     \/ ix[k2][1] + ix[k2][2] <= ix[k1][1]

\* what flush() leaves of the pending entries of h
FlushLayout(h) ==
    LET cache == heap[h].cache
        start == FileOf(h).max_position
        g == FileOfNext(h)
    IN /\ heap'[h].has_cache /\ heap'[h].cache = EmptyDict
       /\ Take(g.body, start - DataStart) = Take(FileOf(h).body, start - DataStart)
       /\ \E keys \in Perms(DOMAIN cache) :
             /\ LaidOut(g, IndexIn(heap'[h]), cache, keys, start)
             /\ g.max_position = start + RecordBytes(cache, keys, Len(keys))
       /\ IndexSound(IndexIn(heap'[h]), g.max_position)

FlushCall(h) ==
    /\ last'.op \in {"flush", "flush_all"} /\ last'.h = h
    /\ \E sa \in BOOLEAN : \E ord \in OrdersOf(h) : DoFlush(h, sa, ord)

\* the mapped stores whose index is loaded
Loaded == {h \in Mapped : heap[h].idx = "dict"}

\* C20: flush() on a writable open mapped store writes the records of the
\* pending entries one after the other from the max_position of the header
\* on, leaves each of their keys in the index at the offset and length of
\* its own record, moves max_position on by the bytes written and empties
\* the cache; after it every index entry lies between offset 104 and
\* max_position and no two entries share a byte.
C20_MmapFlushLayout ==
    [][\A h \in Loaded \cap Writable :
          FlushCall(h) => (last'.status = "ok" /\ FlushLayout(h))]_vars

(* ------------------------------------------------------------------ *)
(* The mapped file only grows                                          *)
(* ------------------------------------------------------------------ *)
\* the calls that write to a store
Writing == {"set", "del", "flush", "flush_all"}

\* the file of h keeps what it has: max_position and the size do not go
\* down and the bytes below max_position stay
FileKept(h) ==
    LET f == FileOf(h)
        g == FileOfNext(h)
    IN /\ g.max_position >= f.max_position
       /\ FileSize(g) >= FileSize(f)
       /\ Take(g.body, f.max_position - DataStart)
             = Take(f.body, f.max_position - DataStart)

\* a key of the index that was pending has a record of its own behind the
\* old max_position, and the record it had is as it was
Repointed(h) ==
    LET f == FileOf(h)
        g == FileOfNext(h)
        ix == IndexIn(heap[h])
        jx == IndexIn(heap'[h])
    IN \A k \in DOMAIN ix :
          /\ ReadAt(g, ix[k][1], ix[k][2]) = ReadAt(f, ix[k][1], ix[k][2])
          /\ (k \in DOMAIN jx /\ jx[k] # ix[k]) => jx[k][1] >= f.max_position

\* C21: across set, delete and flush on a mapped store the max_position of
\* the header never goes down, the file never gets shorter, and no byte of
\* a record written before changes: a key set again gets a new record
\* behind the old ones and its index entry points there, the old record
\* staying where it is.
C21_MmapOnlyGrows ==
    [][\A h \in Mapped :
          (last'.op \in Writing /\ last'.h = h /\ heap'[h].fd = heap[h].fd)
             => (FileKept(h) /\ Repointed(h))]_vars

\* a key was set again and flushed: its index entry points behind the
\* record it had first
C21_Witness ==
    /\ last.op \in {"flush", "flush_all"} /\ last.status = "ok"
    /\ last.h \in Mapped
    /\ \E k \in DOMAIN IndexIn(heap[last.h]) :
          IndexIn(heap[last.h])[k][1] > DataStart
    /\ Cardinality(DOMAIN IndexIn(heap[last.h])) = 1

(* ------------------------------------------------------------------ *)
(* is_loaded and the task that unpickles the index                     *)
(* ------------------------------------------------------------------ *)
\* the task of h has not ended
TaskRuns(h) == heap[h].idx = "future" /\ ~heap[h].finished

\* is_loaded is False of an open store only while its task runs, and False
\* of a closed one
LoadedUnlessTaskRuns ==
    \A h \in Ids :
       /\ (h \in Mapped /\ ~IsLoaded(State, h)) => TaskRuns(h)
       /\ (heap[h].cls = "MmapDict" /\ heap[h].is_closed) => ~IsLoaded(State, h)

\* once is_loaded is True it stays True as long as the store is not closed
StaysLoaded ==
    \A h \in Mapped :
       (IsLoaded(State, h) /\ heap'[h].cls = "MmapDict" /\ ~heap'[h].is_closed)
          => IsLoaded(StateNext, h)

\* a call that needs the index and returns has the whole index that was
\* saved: nothing of it is missing and the task is over
WaitsForIndex ==
    \A h \in Mapped :
       (/\ last'.op \in {"contains", "len"} /\ last'.h = h /\ last' # last
        /\ last'.status = "ok" /\ heap[h].idx = "future")
          => /\ heap'[h].idx = "dict"
             /\ PickleLoads(heap[h].pickled).ok
             /\ heap'[h].indices = PickleLoads(heap[h].pickled).d

\* a store opened on a path where no file is is loaded at once
FreshIsLoaded ==
    \A h \in Ids :
       (/\ last'.op = "open" /\ last'.h = h /\ last'.status = "ok"
        /\ last' # last
        /\ heap'[h].cls = "MmapDict" /\ dir[heap'[h].path] = 0)
          => IsLoaded(StateNext, h)

\* C22: is_loaded of a mapped store opened on a file is False only while
\* the task that unpickles the index has not ended, and becomes True once
\* the task is there; once True it stays True until close(), and is False
\* after it. A call that needs the index waits for the task and sees the
\* whole index. A store made anew is loaded at once.
C22_IsLoaded ==
    /\ []LoadedUnlessTaskRuns
    /\ [][StaysLoaded]_vars
    /\ [][WaitsForIndex]_vars
    /\ [][FreshIsLoaded]_vars
    /\ \A h \in Ids :
          (h \in Mapped /\ TaskRuns(h))
             ~> (IsLoaded(State, h) \/ heap[h].is_closed \/ ~heap[h].held)

(* ------------------------------------------------------------------ *)
(* Two processes that flush to one mapped file                          *)
(* ------------------------------------------------------------------ *)
\* the index a process that opens file f now would load
Persisted(f) == PickleLoads(ReadAt(f, f.max_position, f.dict_size))

\* the keys the last flush of h wrote records for
LastFlushed(h) == heap[h].wrote

\* the file accounts for what the last flush of h wrote: the saved index
\* has each key at its record, the record lies below max_position and
\* holds the value h wrote
Accounted(h) ==
    LET f == FileOf(h)
        px == Persisted(f)
    IN /\ px.ok
       /\ \A k \in LastFlushed(h) :
             /\ k \in DOMAIN px.d
             /\ px.d[k] = heap[h].indices[k]
             /\ px.d[k][1] + px.d[k][2] <= f.max_position
             /\ MarshalLoads(ReadAt(f, px.d[k][1], px.d[k][2]))
                   = [ok |-> TRUE, v |-> ValueOf(h)]

\* the records the last flush of h wrote are in the file, where the index
\* of h has them
Written(h) ==
    \A k \in LastFlushed(h) :
       MarshalLoads(ReadAt(FileOf(h), heap[h].indices[k][1], heap[h].indices[k][2]))
          = [ok |-> TRUE, v |-> ValueOf(h)]

\* both processes are through a flush that wrote records, and both had
\* read the same max_position
Raced(h1, h2) ==
    /\ h1 # h2 /\ heap[h1].fd = heap[h2].fd
    /\ heap[h1].pc = "idle" /\ heap[h2].pc = "idle"
    /\ heap[h1].start = heap[h2].start
    /\ heap[h1].pos > heap[h1].start /\ heap[h2].pos > heap[h2].start

SetAgain(h) ==
    DOMAIN heap[h].caches[heap[h].current_table]
       \cap DOMAIN heap[h].view_rows[heap[h].current_table]

\* the flush has put the pending value of each such key in its row, and a
\* get gives that value
RowsReplaced(h) ==
    LET tb == heap[h].current_table
        cache == heap[h].caches[tb]
    IN /\ last'.status = "ok"
       /\ heap'[h].caches[tb] = EmptyDict
       /\ \A k \in SetAgain(h) :
             /\ k \in DOMAIN FileOfNext(h).rows[tb]
             /\ FileOfNext(h).rows[tb][k] = MarshalDumps(cache[k])
             /\ SqlGetItem(StateNext, h, KStr(k)) = Res(StateNext, "ok", cache[k])

\* C24: on a relational store that is not read-only a key whose row is in
\* the table can be set and flushed again: the second flush returns, the
\* one row of the key holds the value set last and get gives that value.
C24_SetAgainFlushes ==
    [][\A h \in Relational \cap Writable :
          (/\ last'.op \in {"flush", "flush_all"} /\ last'.h = h
           /\ ConnOk(State, h)
           /\ IsTableExist(State, h, heap[h].current_table)
           /\ SetAgain(h) # {}
           /\ \E sa \in BOOLEAN : \E ord \in OrdersOf(h) : DoFlush(h, sa, ord))
             => RowsReplaced(h)]_vars

(* ------------------------------------------------------------------ *)
(* A deleted key is gone                                               *)
(* ------------------------------------------------------------------ *)
\* after the step the store of h does not have the key
Gone(h, key) ==
    /\ Contains(StateNext, h, key).status = "ok"
    /\ Contains(StateNext, h, key).ret = VBool(FALSE)
    /\ GetItem(StateNext, h, key).status = "KeyError"

\* C25: after `del store[k]` has returned on a store of either class that
\* is not read-only, k is not in the store: `k in store` is False and
\* store[k] raises KeyError, also when k was flushed and then set again,
\* so that it was pending and in the index or table at once.
C25_DeletedIsGone ==
    [][\A h \in Writable : \A key \in StoreKeys :
          (/\ last'.op = "del" /\ last'.h = h /\ last'.key = key
           /\ last'.status = "ok"
           /\ DoDel(h, key))
             => Gone(h, key)]_vars

(* ------------------------------------------------------------------ *)
(* An open that fails                                                  *)
(* ------------------------------------------------------------------ *)
\* the step is an open that raised
OpenFailed == last'.op = "open" /\ last'.status # "ok"

\* the open cls("P", read_only, 1, override) after an open that raised has
\* given an object that is open and has the arguments of this call
FreshAfterFailure(cls, read_only, override) ==
    (/\ last.op = "open" /\ last.status # "ok"
     /\ last'.op = "open" /\ last'.status = "ok"
     /\ DoOpen(cls, "P", read_only, 1, override))
       => /\ heap'[last'.h].cls = cls
          /\ heap'[last'.h].held /\ ~heap'[last'.h].is_closed
          /\ heap'[last'.h].read_only = read_only

\* C26: an open that fails (FormatError on a file with another header,
\* NotFoundError on a read-only open where no file is) leaves _INSTANCES
\* as it was, with no object under the path, and an open of the path that
\* follows gives a new object with the arguments of that call.
C26_FailedOpenNotRegistered ==
    /\ [][OpenFailed => instances' = instances]_vars
    /\ [][\A cls \in Classes, ro \in BOOLEAN, ov \in BOOLEAN :
             FreshAfterFailure(cls, ro, ov)]_vars

(* ------------------------------------------------------------------ *)
(* A read-only open and the file                                       *)
(* ------------------------------------------------------------------ *)
\* the step left the directory and the file at "P" as they were
FileUntouched ==
    /\ dir' = dir
    /\ FileAt(StateNext) = FileAt(State)

\* C27: an open with read_only set makes, changes and removes no file,
\* whatever its other arguments are: with override set it leaves a file
\* that is there and what is in it, and where no file is it makes no file
\* and no table.
C27_ReadOnlyOpenKeepsFile ==
    [][\A cls \in Classes, ov \in BOOLEAN :
          (last'.op = "open" /\ DoOpen(cls, "P", TRUE, 1, ov))
             => FileUntouched]_vars

(* ------------------------------------------------------------------ *)
(* The current table is there                                          *)
(* ------------------------------------------------------------------ *)
\* the current table of every open relational store is a table of its
\* database
CurrentTableExists ==
    \A h \in Relational :
       ConnOk(State, h) => IsTableExist(State, h, heap[h].current_table)

\* the step drop_table(name) on h has removed the table that was current
\* and left the default table current
DropsCurrent(h, name) ==
    (/\ last'.op = "drop_table" /\ last'.h = h /\ last'.key = KStr(name)
     /\ last'.status = "ok"
     /\ TableToDrop(h, name) = heap[h].current_table
     /\ DoDropTable(h, name))
       => heap'[h].current_table = DEFAULT_TABLE

\* C28: the current table of an open relational store is at all times a
\* table of the database: when drop_table removes the table that is
\* current, named or meant by None, the default table is current after
\* it, so that the get, set, contains or len that follows does not go to
\* a table that is gone.
C28_CurrentTableExists ==
    /\ []CurrentTableExists
    /\ [][\A h \in Relational \cap Writable : \A name \in DropNames :
             DropsCurrent(h, name)]_vars

(* ------------------------------------------------------------------ *)
(* get with a list of keys that are all there                          *)
(* ------------------------------------------------------------------ *)
\* store[k] returns for every key of the list
AllPresent(h, keys) ==
    \A i \in DOMAIN keys : SqlGetItem(State, h, keys[i]).status = "ok"

\* what store[k] returns for each key of the list, in the order of the
\* list
OneByOne(h, keys) ==
    VList([i \in DOMAIN keys |-> SqlGetItem(State, h, keys[i]).ret])

\* C29: get with a list of keys that are all in a relational store
\* returns, place by place, what get returns for each key alone, also when
\* keys of the list are pending in the cache, when a key is in the list
\* twice, and in whatever order the rows of the table come.
C29_MultiGetAsSingleGets ==
    [][\A h \in Relational : \A keys \in GetLists :
          (/\ last'.op = "get_keys" /\ last'.h = h /\ last'.key = Head(keys)
           /\ AllPresent(h, keys)
           /\ \E ord \in RowOrders(h) : DoGetKeys(h, keys, ord))
             => /\ last'.status = "ok"
                /\ last'.ret = OneByOne(h, keys)]_vars

(* ------------------------------------------------------------------ *)
(* len and iteration count every key once                              *)
(* ------------------------------------------------------------------ *)
\* the keys store[k] returns for, among the texts the keys are stored as
Gettable(h) ==
    {k \in {Str(key) : key \in StoreKeys} :
        GetItem(State, h, KStr(k)).status = "ok"}

\* the orders the durable keys and the pending keys of h iterate in
DurableOrders(h) ==
    IF heap[h].cls = "MmapDict"
    THEN Perms(DOMAIN Indices(State, h).d) ELSE RowOrders(h)
PendingOrders(h) == Perms(DOMAIN CurrentCache(State, h))

\* the sequence holds every element of S once and nothing else
EachOnce(seq, S) ==
    Len(seq) = Cardinality(S) /\ {seq[i] : i \in DOMAIN seq} = S

\* the keys come once each
KeysOnce(h) ==
    \A ord \in DurableOrders(h), co \in PendingOrders(h) :
        LET r == IterKeys(State, h, ord, co)
        IN r.status = "ok" /\ EachOnce(r.ret, Gettable(h))

\* the items come once for each key, with the value store[k] returns
ItemsOnce(h) ==
    \A ord \in DurableOrders(h), co \in PendingOrders(h) :
        LET r == IterItems(State, h, ord, co)
        IN /\ r.status = "ok"
           /\ EachOnce([i \in DOMAIN r.ret |-> r.ret[i][1]], Gettable(h))
           /\ \A i \in DOMAIN r.ret :
                 r.ret[i][2] = GetItem(State, h, KStr(r.ret[i][1])).ret

\* C30: in a store of either class that can be written, whenever
\* len(store) returns it returns the number of keys store[k] returns for,
\* and iterating the keys or the items at that moment yields each of those
\* keys once, the items with the value store[k] returns (the pending one
\* for a key that was flushed and then set again).
C30_LenCountsKeysOnce ==
    [][\A h \in Writable :
          (/\ last'.op = "len" /\ last'.h = h /\ last'.status = "ok"
           /\ DoLen(h))
             => /\ last'.ret = VInt(Cardinality(Gettable(h)))
                /\ KeysOnce(h)
                /\ ItemsOnce(h)]_vars

====
